---- MODULE Spec2Model ----
(***************************************************************************)
(* A model of the WikiDP portal's response-shaping code: the snak parser,  *)
(* the entity detail parser, the search controller, the SPARQL binding     *)
(* flattener and the write controller.                                     *)
(*                                                                         *)
(* Python values are tagged records: None, str (a sequence of text         *)
(* chunks; text that the code inspects character by character is given     *)
(* one character per chunk), int, float, bool, dict (a function from key   *)
(* names to values; DOMAIN is the dict's key set) and list.  A call ends   *)
(* in an outcome: Return(v) or Raise(exception name).                      *)
(***************************************************************************)
EXTENDS Integers, Sequences, FiniteSets, TLC

VARIABLES
    call,       \* the operation invoked, with its arguments and what the
                \* outside world (Wikidata, Commons) answers during it
    pc,         \* "called" while the operation is to run, "done" after it
    ret,        \* its outcome: Return(value) or Raise(exception)
    logged,     \* the records it wrote with logging.exception
    puid_queries,   \* the PUID queries it sent to the SPARQL endpoint
    writes,     \* the writes it submitted to Wikidata
    cached_property_labels, \* utils.py: the pid -> label mapping handed along
    lookups,    \* the property lookups that calls of pid_label made on
                \* their own issued, by pid, in order
    caches,     \* DisplayFunctions.py: PID_CACHE and QID_CACHE of each
                \* interpreter
    cache_files,    \* DisplayFunctions.py: the pickle files on disk
    added       \* the labels each call put into a cache

vars == <<call, pc, ret, logged, puid_queries, writes, cached_property_labels,
          lookups, caches, cache_files, added>>

\* the state of the pickle-backed cache of DisplayFunctions.py
pickle_vars == <<caches, cache_files, added>>

-----------------------------------------------------------------------------
(* Python values *)

None == [k |-> "None"]
Str(chunks) == [k |-> "str", s |-> chunks]
S(text) == Str(<<text>>)
PyInt(n) == [k |-> "int", n |-> n]
PyFloat(chunks) == [k |-> "float", s |-> chunks]
PyBool(b) == [k |-> "bool", b |-> b]
Dict(d) == [k |-> "dict", d |-> d]
List(l) == [k |-> "list", l |-> l]

IsNone(v) == v.k = "None"
IsStr(v) == v.k = "str"
IsDict(v) == v.k = "dict"
IsList(v) == v.k = "list"

\* Python truthiness
Truthy(v) ==
    CASE v.k = "None" -> FALSE
      [] v.k = "str" -> v.s # <<>>
      [] v.k = "int" -> v.n # 0
      [] v.k = "bool" -> v.b
      [] v.k = "dict" -> DOMAIN v.d # {}
      [] v.k = "list" -> v.l # <<>>
      [] OTHER -> TRUE

\* dict.get(key, default)
Get(v, key, default) == IF key \in DOMAIN v.d THEN v.d[key] ELSE default

\* key in dict
HasKey(v, key) == key \in DOMAIN v.d

Return(v) == [out |-> "return", val |-> v]
Raise(e) == [out |-> "raise", exc |-> e]
Raised(o) == o.out = "raise"

-----------------------------------------------------------------------------
(* Text helpers *)

Digits == {"0", "1", "2", "3", "4", "5", "6", "7", "8", "9"}

DigitVal(c) ==
    CASE c = "0" -> 0 [] c = "1" -> 1 [] c = "2" -> 2 [] c = "3" -> 3
      [] c = "4" -> 4 [] c = "5" -> 5 [] c = "6" -> 6 [] c = "7" -> 7
      [] c = "8" -> 8 [] c = "9" -> 9

RECURSIVE DigitsToNat(_)
DigitsToNat(cs) ==
    IF cs = <<>> THEN 0
    ELSE 10 * DigitsToNat(SubSeq(cs, 1, Len(cs) - 1)) + DigitVal(cs[Len(cs)])

AllDigits(cs) == cs # <<>> /\ \A i \in 1..Len(cs) : cs[i] \in Digits

\* str.replace(old, new) for a one-chunk old
Replace(cs, old, new) ==
    [i \in 1..Len(cs) |-> IF cs[i] = old THEN new ELSE cs[i]]

RECURSIVE ReplaceWith(_, _, _)
\* str.replace(old, new) where new is itself text (a chunk sequence)
ReplaceWith(cs, old, new) ==
    IF cs = <<>> THEN <<>>
    ELSE (IF Head(cs) = old THEN new ELSE <<Head(cs)>>)
             \o ReplaceWith(Tail(cs), old, new)

RECURSIVE LStrip(_)
LStrip(cs) == IF cs # <<>> /\ Head(cs) = " " THEN LStrip(Tail(cs)) ELSE cs

RECURSIVE RStrip(_)
RStrip(cs) ==
    IF cs # <<>> /\ cs[Len(cs)] = " "
    THEN RStrip(SubSeq(cs, 1, Len(cs) - 1)) ELSE cs

\* str.strip()
Strip(cs) == RStrip(LStrip(cs))


RECURSIVE NatToDigits(_)
\* str(n) for a natural number, one character per chunk
NatToDigits(n) ==
    LET d == CHOOSE c \in Digits : DigitVal(c) = n % 10
    IN IF n < 10 THEN <<d>> ELSE NatToDigits(n \div 10) \o <<d>>

\* str(v) as format() renders it
Fmt(v) ==
    CASE v.k = "str" -> v.s
      [] v.k = "None" -> <<"None">>
      [] v.k = "int" -> IF v.n < 0 THEN <<"-">> \o NatToDigits(0 - v.n)
                        ELSE NatToDigits(v.n)
      [] OTHER -> <<"<object>">>

-----------------------------------------------------------------------------
(* wd_int_utils.py / utils.py: the SPARQL wrapper *)

\* the flattening gone wrong: each variable mapped to its 'type' field
format_wikidata_bindings_type(bindings) ==
    List([i \in 1..Len(bindings.l) |->
            Dict([key \in DOMAIN bindings.l[i].d |->
                    Get(bindings.l[i].d[key], "type", None)])])

\* [{k: v.get('value') for k, v in res.items()} for res in bindings]
format_wikidata_bindings(bindings) ==
    List([i \in 1..Len(bindings.l) |->
            Dict([key \in DOMAIN bindings.l[i].d |->
                    Get(bindings.l[i].d[key], "value", None)])])

\* result is what WDItemEngine.execute_sparql_query answered
process_query_string(result) ==
    IF ~HasKey(result, "results") THEN Raise("KeyError")
    ELSE LET bindings == Get(result.d.results, "bindings", None)
         IN IF ~IsList(bindings) THEN Raise("TypeError")
            ELSE Return(format_wikidata_bindings(bindings))

\* prop_response[0] if prop_response else None; result answers PROPERTY_QUERY
get_property(result) ==
    LET prop_response == process_query_string(result)
    IN IF Raised(prop_response) THEN prop_response
       ELSE IF Truthy(prop_response.val)
            THEN Return(prop_response.val.l[1]) ELSE Return(None)

-----------------------------------------------------------------------------
(* utils/__init__.py: value formatting *)

FormatterUrlOf(prop) == Get(prop, "formatter_url", None)

\* value.strip(); get_property(pid); formatter_url.replace("$1", value)
format_url_from_property(value, result) ==
    IF ~IsStr(value) THEN Raise("AttributeError")
    ELSE LET stripped == Strip(value.s)
             prop == get_property(result)
         IN IF Raised(prop) THEN prop
            ELSE IF Truthy(prop.val) /\ HasKey(prop.val, "formatter_url")
                 THEN Return(Str(ReplaceWith(FormatterUrlOf(prop.val).s,
                                             "$1", stripped)))
                 ELSE Return(None)

\* utils.py: 'formatter_url' in prop, with no guard for a missing property
legacy_format_url_from_property(value, result) ==
    IF ~IsStr(value) THEN Raise("AttributeError")
    ELSE LET stripped == Strip(value.s)
             prop == get_property(result)
         IN IF Raised(prop) THEN prop
            ELSE IF ~IsDict(prop.val) THEN Raise("TypeError")
            ELSE IF HasKey(prop.val, "formatter_url")
                 THEN Return(Str(ReplaceWith(FormatterUrlOf(prop.val).s,
                                             "$1", stripped)))
                 ELSE Return(None)

CommonsFileUrl(title) ==
    Str(<<"https://commons.wikimedia.org", "/wiki/File:">> \o title)

\* answer is what the Commons API did: [kind |-> "url", url |-> ...] when the
\* JSON names the image's url, "KeyError" when it lacks a level (or lists no
\* page), "URLError" when the request itself failed
get_wikimedia_image_url_from_title(title, answer) ==
    IF ~IsStr(title) THEN Raise("AttributeError")
    ELSE LET t == Replace(title.s, " ", "_")
         IN CASE answer.kind = "url" -> Return(answer.url)
              [] answer.kind = "KeyError" -> Return(CommonsFileUrl(t))
              [] OTHER -> Raise(answer.kind)

\* utils.py: except (UnicodeEncodeError, KeyError, Exception) around the request
legacy_get_wikimedia_image_url_from_title(title, answer) ==
    IF ~IsStr(title) THEN Raise("AttributeError")
    ELSE LET t == Replace(title.s, " ", "_")
         IN IF answer.kind = "url" THEN Return(answer.url)
            ELSE Return(CommonsFileUrl(t))


-----------------------------------------------------------------------------
(* time_formatter: strptime('+%Y-%m-%dT%H:%M:%SZ'), strftime("%A, %B %-d, %Y") *)

MonthNames == <<"January", "February", "March", "April", "May", "June", "July",
                "August", "September", "October", "November", "December">>

WeekdayNames == <<"Sunday", "Monday", "Tuesday", "Wednesday", "Thursday",
                  "Friday", "Saturday">>

IsLeap(y) == (y % 4 = 0 /\ y % 100 # 0) \/ y % 400 = 0

DaysInMonth(y, m) ==
    IF m = 2 THEN (IF IsLeap(y) THEN 29 ELSE 28)
    ELSE IF m \in {4, 6, 9, 11} THEN 30 ELSE 31

\* day of the week of a Gregorian date, 0 = Sunday
Weekday(y, m, d) ==
    LET t == <<0, 3, 2, 5, 0, 3, 5, 1, 4, 6, 2, 4>>
        yy == IF m < 3 THEN y - 1 ELSE y
    IN (yy + (yy \div 4) - (yy \div 100) + (yy \div 400) + t[m] + d) % 7

\* the text has the fixed-width shape +YYYY-MM-DDTHH:MM:SSZ
TimeShape(cs) ==
    /\ Len(cs) = 21
    /\ cs[1] = "+" /\ cs[6] = "-" /\ cs[9] = "-" /\ cs[12] = "T"
    /\ cs[15] = ":" /\ cs[18] = ":" /\ cs[21] = "Z"
    /\ \A i \in {2, 3, 4, 5, 7, 8, 10, 11, 13, 14, 16, 17, 19, 20} :
          cs[i] \in Digits

\* strptime succeeds: the shape, and a date and a time of day that exist
TimeParses(cs) ==
    /\ TimeShape(cs)
    /\ LET y == DigitsToNat(SubSeq(cs, 2, 5))
           m == DigitsToNat(SubSeq(cs, 7, 8))
           d == DigitsToNat(SubSeq(cs, 10, 11))
       IN /\ y >= 1 /\ m \in 1..12 /\ d >= 1 /\ d <= DaysInMonth(y, m)
          /\ DigitsToNat(SubSeq(cs, 13, 14)) <= 23
          /\ DigitsToNat(SubSeq(cs, 16, 17)) <= 59
          /\ DigitsToNat(SubSeq(cs, 19, 20)) <= 61

time_formatter(time) ==
    IF IsStr(time) /\ TimeParses(time.s)
    THEN LET y == DigitsToNat(SubSeq(time.s, 2, 5))
             m == DigitsToNat(SubSeq(time.s, 7, 8))
             d == DigitsToNat(SubSeq(time.s, 10, 11))
         IN Str(<<WeekdayNames[Weekday(y, m, d) + 1], ", ", MonthNames[m], " ">>
                \o NatToDigits(d) \o <<", ">> \o SubSeq(time.s, 2, 5))
    ELSE time

-----------------------------------------------------------------------------
(* int(num) / float(num) *)

Unsigned(cs) == IF cs # <<>> /\ Head(cs) \in {"+", "-"} THEN Tail(cs) ELSE cs

\* the literal int() accepts: optional sign, then digits
IntLiteral(cs) == AllDigits(Unsigned(Strip(cs)))

\* the literal float() accepts (here): optional sign, digits, ".", digits
FloatLiteral(cs) ==
    LET u == Unsigned(Strip(cs))
    IN \/ AllDigits(u)
       \/ \E i \in 1..Len(u) :
            /\ u[i] = "."
            /\ AllDigits(SubSeq(u, 1, i - 1)) /\ AllDigits(SubSeq(u, i + 1, Len(u)))

\* try: int(num) except ValueError: float(num)
to_number(num) ==
    CASE num.k = "int" -> Return(num)
      [] num.k = "str" ->
           LET cs == Strip(num.s)
           IN IF IntLiteral(cs)
              THEN Return(PyInt(IF cs[1] = "-" THEN 0 - DigitsToNat(Unsigned(cs))
                                ELSE DigitsToNat(Unsigned(cs))))
              ELSE IF FloatLiteral(cs) THEN Return(PyFloat(cs))
              ELSE Raise("ValueError")
      [] OTHER -> Raise("TypeError")

\* validators.url(val): a failure object (falsy) unless the text is a URL
validators_url(val) ==
    IF ~IsStr(val) THEN Raise("TypeError")
    ELSE Return(PyBool(/\ val.s # <<>>
                       /\ Head(val.s) \in {"http://", "https://"}
                       /\ Len(val.s) > 1
                       /\ \A i \in 1..Len(val.s) : val.s[i] # " "))


-----------------------------------------------------------------------------
(* utils/__init__.py: parse_snak *)

P18 == Str(<<"P", "1", "8">>)
P154 == Str(<<"P", "1", "5", "4">>)
ImagePids == {P18, P154}

\* 'amount' in data_value
contains_amount(data_value) ==
    CASE data_value.k = "dict" -> Return(PyBool(HasKey(data_value, "amount")))
      [] data_value.k = "str" ->
           Return(PyBool(\E i \in 1..Len(data_value.s) : data_value.s[i] = "amount"))
      [] data_value.k = "list" ->
           Return(PyBool(\E i \in 1..Len(data_value.l) : data_value.l[i] = S("amount")))
      [] OTHER -> Raise("TypeError")

\* data_value.get(key, default), on whatever data_value is
attr_get(data_value, key, default) ==
    IF IsDict(data_value) THEN Return(Get(data_value, key, default))
    ELSE Raise("AttributeError")

Formatted(val, parse_type) == Return([val |-> val, parse_type |-> parse_type])

\* lines 427-429: the image file name becomes the image's url
image_value(data_value, answer) ==
    LET url == get_wikimedia_image_url_from_title(data_value, answer)
    IN IF Raised(url) THEN url ELSE Formatted(url.val, S("image"))

\* lines 430-432
external_id_value(parse_type, data_value, result) ==
    LET url == format_url_from_property(data_value, result)
    IN IF Raised(url) THEN url
       ELSE Formatted(Dict([url |-> url.val, label |-> data_value]), parse_type)

\* lines 433-458: the rule chosen by the datavalue's type
typed_value(parse_type, data_type, data_value) ==
    IF data_type = S("string")
    THEN LET is_url == validators_url(data_value)
         IN IF Raised(is_url) THEN is_url
            ELSE Formatted(data_value,
                           IF Truthy(is_url.val) THEN S("url") ELSE parse_type)
    ELSE IF data_type = S("wikibase-entityid")
    THEN LET entity_type == attr_get(data_value, "entity-type", None)
         IN IF Raised(entity_type) THEN entity_type
            ELSE IF entity_type.val = S("property")
            THEN Formatted(Str(<<"P">> \o Fmt(Get(data_value, "numeric-id", None))),
                           entity_type.val)
            ELSE Formatted(Get(data_value, "id", None), entity_type.val)
    ELSE IF data_type = S("time")
    THEN LET time == attr_get(data_value, "time", None)
         IN IF Raised(time) THEN time
            ELSE Formatted(time_formatter(time.val), S("time"))
    ELSE LET has_amount == IF data_type = S("quantity")
                           THEN contains_amount(data_value)
                           ELSE Return(PyBool(FALSE))
         IN IF Raised(has_amount) THEN has_amount
            ELSE IF Truthy(has_amount.val)
            THEN LET num == attr_get(data_value, "amount", None)
                 IN IF Raised(num) THEN num
                    ELSE LET n == to_number(num.val)
                         IN IF Raised(n) THEN n ELSE Formatted(n.val, parse_type)
            ELSE IF data_type = S("monolingualtext")
            THEN LET text == attr_get(data_value, "text", Str(<<>>))
                 IN IF Raised(text) THEN text
                    ELSE Formatted(
                           Str(<<"\"">> \o Fmt(text.val) \o <<"\" (language: ">>
                               \o Fmt(Get(data_value, "language", S("unknown")))
                               \o <<")">>),
                           parse_type)
            ELSE Formatted(Str(<<"Unable To Parse Value ">> \o Fmt(data_type)),
                           parse_type)

\* a slip: the datatype test made before the property test
snak_value_datatype_first(pid, parse_type, data_type, data_value, answer, result) ==
    IF parse_type = S("external-id")
    THEN external_id_value(parse_type, data_value, result)
    ELSE IF pid \in ImagePids THEN image_value(data_value, answer)
    ELSE typed_value(parse_type, data_type, data_value)

\* the if/elif chain of lines 427-458: the value and the parse_type it leaves
snak_value(pid, parse_type, data_type, data_value, answer, result) ==
    IF pid \in ImagePids THEN image_value(data_value, answer)
    ELSE IF parse_type = S("external-id")
    THEN external_id_value(parse_type, data_value, result)
    ELSE typed_value(parse_type, data_type, data_value)

\* a slip: the datatype returned in place of the datavalue's type
snak_record_datatype(val, parse_type, data_type) ==
    Dict([value |-> val, parse_type |-> parse_type, type |-> parse_type])

\* line 459: {'value': val, 'parse_type': parse_type, 'type': data_type}
snak_record(val, parse_type, data_type) ==
    Dict([value |-> val, parse_type |-> parse_type, type |-> data_type])

\* the body of parse_snak's try block
parse_snak_try(pid, snak, answer, result) ==
    IF ~IsDict(snak) THEN Raise("TypeError")
    ELSE IF ~HasKey(snak, "snaktype") THEN Raise("KeyError")
    ELSE IF snak.d.snaktype = S("novalue") \/ ~HasKey(snak, "datavalue")
    THEN Return(None)
    ELSE LET parse_type == Get(snak, "datatype", None)
             datavalue == snak.d.datavalue
         IN IF ~IsDict(datavalue) THEN Raise("AttributeError")
            ELSE LET data_type == Get(datavalue, "type", None)
                     data_value == Get(datavalue, "value", None)
                     v == snak_value(pid, parse_type, data_type, data_value,
                                     answer, result)
                 IN IF Raised(v) THEN v
                    ELSE Return(snak_record(v.val.val, v.val.parse_type, data_type))

\* except KeyError: logging.exception(...); return None
\* the outcome, and whether the exception was logged
parse_snak(pid, snak, answer, result) ==
    LET o == parse_snak_try(pid, snak, answer, result)
    IN IF Raised(o) /\ o.exc = "KeyError"
       THEN [outcome |-> Return(None), logged |-> TRUE]
       ELSE [outcome |-> o, logged |-> FALSE]


-----------------------------------------------------------------------------
(* utils.py: the earlier parse_snak, with its property-label cache *)

\* pid_label without line 368: the label is returned and not kept
pid_label_unkept(pid, cached_values, result) ==
    IF ~HasKey(cached_values, pid)
    THEN LET prop == get_property(result)
             default_label == Str(<<"property ">> \o Fmt(pid))
         IN IF Raised(prop)
            THEN [outcome |-> prop, cache |-> cached_values, looked_up |-> TRUE]
            ELSE LET property_label ==
                         IF Truthy(prop.val)
                         THEN Get(prop.val, "propertyLabel", default_label)
                         ELSE default_label
                 IN [outcome |-> Return(property_label),
                     cache |-> cached_values, looked_up |-> TRUE]
    ELSE [outcome |-> Return(cached_values.d[pid]), cache |-> cached_values,
          looked_up |-> FALSE]

\* the label of pid, the cache the call leaves and whether it looked the
\* property up; result answers the property query made on a miss
pid_label(pid, cached_values, result) ==
    IF ~HasKey(cached_values, pid)
    THEN LET prop == get_property(result)
             default_label == Str(<<"property ">> \o Fmt(pid))
         IN IF Raised(prop)
            THEN [outcome |-> prop, cache |-> cached_values, looked_up |-> TRUE]
            ELSE LET property_label ==
                         IF Truthy(prop.val)
                         THEN Get(prop.val, "propertyLabel", default_label)
                         ELSE default_label
                 IN [outcome |-> Return(property_label),
                     cache |-> Dict((pid :> property_label) @@ cached_values.d),
                     looked_up |-> TRUE]
    ELSE [outcome |-> Return(cached_values.d[pid]), cache |-> cached_values,
          looked_up |-> FALSE]

\* the if/elif chain of utils.py lines 305-334
legacy_snak_value(pid, parse_type, data_type, data_value, cache, answer, result) ==
    IF pid \in ImagePids
    THEN LET url == legacy_get_wikimedia_image_url_from_title(data_value, answer)
         IN [outcome |-> IF Raised(url) THEN url ELSE Formatted(url.val, S("image")),
             cache |-> cache]
    ELSE IF parse_type = S("external-id")
    THEN LET url == legacy_format_url_from_property(data_value, result)
         IN [outcome |-> IF Raised(url) THEN url
                         ELSE Formatted(Dict([url |-> url.val, label |-> data_value]),
                                        parse_type),
             cache |-> cache]
    ELSE IF data_type = S("wikibase-entityid")
    THEN LET entity_type == attr_get(data_value, "entity-type", None)
         IN IF Raised(entity_type) THEN [outcome |-> entity_type, cache |-> cache]
            ELSE IF entity_type.val = S("property")
            THEN LET prop_pid == Str(<<"P">> \o Fmt(Get(data_value, "numeric-id", None)))
                     label == pid_label(prop_pid, cache, result)
                 IN [outcome |-> IF Raised(label.outcome) THEN label.outcome
                                 ELSE Formatted(Dict([pid |-> prop_pid,
                                                      label |-> label.outcome.val]),
                                                entity_type.val),
                     cache |-> label.cache]
            ELSE [outcome |-> Formatted(Get(data_value, "id", None), entity_type.val),
                  cache |-> cache]
    ELSE \* lines 310-313 and 322-334 read as lines 433-436 and 443-458 above
         [outcome |-> typed_value(parse_type, data_type, data_value),
          cache |-> cache]

\* utils.py parse_snak: except (KeyError, Exception) logs and returns None
legacy_parse_snak(pid, snak, labels, answer, result) ==
    LET unlogged(o) == [outcome |-> o, logged |-> FALSE,
                        cache |-> labels]
        failed(c) == [outcome |-> Return(None), logged |-> TRUE, cache |-> c]
    IN IF ~IsDict(snak) \/ ~HasKey(snak, "snaktype")
       THEN failed(labels)
       ELSE IF snak.d.snaktype = S("novalue") \/ ~HasKey(snak, "datavalue")
       THEN unlogged(Return(None))
       ELSE LET parse_type == Get(snak, "datatype", None)
                datavalue == snak.d.datavalue
            IN IF ~IsDict(datavalue) THEN failed(labels)
               ELSE LET data_type == Get(datavalue, "type", None)
                        data_value == Get(datavalue, "value", None)
                        v == legacy_snak_value(pid, parse_type, data_type, data_value,
                                               labels, answer, result)
                    IN IF Raised(v.outcome) THEN failed(v.cache)
                       ELSE [outcome |-> Return(Dict([value |-> v.outcome.val.val,
                                          parse_type |-> v.outcome.val.parse_type,
                                          type |-> data_type])),
                             logged |-> FALSE, cache |-> v.cache]


-----------------------------------------------------------------------------
(* The values the model feeds the snak parser *)

Absent == [k |-> "absent"]

\* a one-key dict, or nothing when the key is left out
Opt(key, v) == IF v = Absent THEN <<>> ELSE (key :> v)

Literal(v) == Dict([type |-> S("literal"), value |-> v])
SparqlResult(bindings) == Dict([results |-> Dict([bindings |-> List(bindings)])])

P31 == Str(<<"P", "3", "1">>)
P2748 == Str(<<"P", "2", "7", "4", "8">>)
Q42 == Str(<<"Q", "4", "2">>)

FormatterUrl == Str(<<"https://www.nationalarchives.gov.uk/PRONOM/", "$1">>)

\* what the property query can answer: nothing, a property without a
\* formatter URL, a property with one
NoProperty == SparqlResult(<<>>)
PlainProperty ==
    SparqlResult(<<Dict([id |-> Literal(P31),
                         propertyLabel |-> Literal(S("instance of"))])>>)
UrlProperty ==
    SparqlResult(<<Dict([id |-> Literal(P2748),
                         propertyLabel |-> Literal(S("PRONOM file format identifier")),
                         formatter_url |-> Literal(FormatterUrl)])>>)

UploadUrl == Str(<<"https://upload.wikimedia.org/", "Logo.png">>)

\* the outside world during one call: the Commons API's answer and the
\* property query's result
Worlds ==
    { [answer |-> [kind |-> "url", url |-> UploadUrl], result |-> UrlProperty],
      [answer |-> [kind |-> "KeyError"], result |-> PlainProperty],
      [answer |-> [kind |-> "URLError"], result |-> NoProperty] }

TimeText(mm, dd) ==
    Str(<<"+", "2", "0", "0", "1", "-">> \o mm \o <<"-">> \o dd
        \o <<"T", "0", "0", ":", "0", "0", ":", "0", "0", "Z">>)

Title == Str(<<"M", "y", " ", "L", "o", "g", "o", ".", "p", "n", "g">>)
Puid == Str(<<" ", "f", "m", "t", "/", "1", "2", " ">>)
HomePage == Str(<<"https://", "example.org/spec">>)

StringValues == {Title, Puid, HomePage}

DictValues ==
    { Dict(("entity-type" :> S("item")) @@ ("numeric-id" :> PyInt(42))
           @@ ("id" :> Q42)),
      Dict(("entity-type" :> S("property")) @@ ("numeric-id" :> PyInt(31))
           @@ ("id" :> P31)),
      Dict([time |-> TimeText(<<"1", "2">>, <<"3", "1">>)]),
      Dict([time |-> TimeText(<<"0", "0">>, <<"0", "0">>)]),
      Dict([amount |-> Str(<<"+", "5">>), unit |-> S("1")]),
      Dict([amount |-> Str(<<"-", "1", ".", "5">>), unit |-> S("1")]),
      Dict([amount |-> Str(<<"a", "b", "c">>)]),
      Dict([unit |-> S("1")]),
      Dict([text |-> Str(<<"P", "D", "F">>), language |-> S("en")]),
      Dict([text |-> Str(<<"P", "D", "F">>)]),
      Dict(<<>>) }

Values == StringValues \cup DictValues \cup {None}

ValueTypes == {S("string"), S("wikibase-entityid"), S("time"), S("quantity"),
               S("monolingualtext"), S("globecoordinate")}

DataValues ==
    {None} \cup
    { Dict(Opt("type", ty) @@ ("value" :> v)) :
        ty \in ValueTypes \cup {Absent}, v \in Values }

SnakTypes == {S("value"), S("novalue")}
DataTypes == {S("external-id"), S("wikibase-item")}

Snaks ==
    {None} \cup
    { Dict(Opt("snaktype", st) @@ Opt("datatype", dt) @@ Opt("datavalue", dv)) :
        st \in SnakTypes \cup {Absent},
        dt \in DataTypes \cup {Absent},
        dv \in DataValues \cup {Absent} }

Pids == {P18, P31, P2748}

LogMessage == "Unexpected exception parsing claims."

-----------------------------------------------------------------------------
(* The state machine: a request arrives (Init), the code runs on it (one   *)
(* action per operation) and leaves its outcome.                           *)

\* the state a request finds: nothing returned, logged or sent yet
Fresh ==
    /\ pc = "called"
    /\ ret = Return(None)
    /\ logged = <<>>
    /\ puid_queries = <<>>
    /\ writes = <<>>
    /\ lookups = <<>>
    /\ caches = <<>>
    /\ cache_files = <<>>
    /\ added = <<>>

\* the mappings a caller of utils.py's parse_snak may hold
Caches == { Dict(<<>>), Dict(P31 :> S("instance of")) }

SnakCalls ==
    [op : {"parse_snak", "legacy_parse_snak"}, pid : Pids, snak : Snaks,
     world : Worlds]

InitSnak ==
    /\ Fresh
    /\ call \in SnakCalls
    /\ cached_property_labels \in
          IF call.op = "legacy_parse_snak" THEN Caches ELSE {Dict(<<>>)}

\* utils/__init__.py: parse_snak runs
ParseSnak ==
    /\ pc = "called" /\ call.op = "parse_snak"
    /\ LET o == parse_snak(call.pid, call.snak, call.world.answer,
                           call.world.result)
       IN /\ ret' = o.outcome
          /\ logged' = IF o.logged THEN <<LogMessage>> ELSE <<>>
    /\ pc' = "done"
    /\ UNCHANGED <<call, puid_queries, writes, cached_property_labels>>
    /\ UNCHANGED <<lookups, pickle_vars>>

\* utils.py: the earlier parse_snak runs, on the mapping at hand
LegacyParseSnak ==
    /\ pc = "called" /\ call.op = "legacy_parse_snak"
    /\ LET o == legacy_parse_snak(call.pid, call.snak, cached_property_labels,
                                  call.world.answer, call.world.result)
       IN /\ ret' = o.outcome
          /\ logged' = IF o.logged THEN <<LogMessage>> ELSE <<>>
          /\ cached_property_labels' = o.cache
    /\ pc' = "done"
    /\ UNCHANGED <<call, puid_queries, writes>>
    /\ UNCHANGED <<lookups, pickle_vars>>

NextSnak == ParseSnak \/ LegacyParseSnak

SpecSnak == InitSnak /\ [][NextSnak]_vars

-----------------------------------------------------------------------------
(* Properties of the snak parser *)

SnakDone == pc = "done" /\ call.op \in {"parse_snak", "legacy_parse_snak"}

\* the snak is a mapping that carries a datavalue
HasDatavalue == IsDict(call.snak) /\ HasKey(call.snak, "datavalue")

\* the snak carries a snaktype, and it is not 'novalue'
HasValueSnaktype ==
    /\ IsDict(call.snak) /\ HasKey(call.snak, "snaktype")
    /\ call.snak.d.snaktype # S("novalue")

SnakDatatype == Get(call.snak, "datatype", None)
DeclaredType == Get(call.snak.d.datavalue, "type", None)
DeclaredValue == Get(call.snak.d.datavalue, "value", None)

EnumeratedTypes == {S("string"), S("wikibase-entityid"), S("time"),
                    S("quantity"), S("monolingualtext")}

\* the amount of a quantity reads as a number
NumericAmount(v) ==
    HasKey(v, "amount") =>
        \/ v.d.amount.k = "int"
        \/ IsStr(v.d.amount) /\ FloatLiteral(v.d.amount.s)

\* the datavalue is a mapping whose value has the shape of its kind: text for
\* an image property, an external id and the type string; a mapping for an
\* entity id, a time, a monolingual text and a quantity (its amount a number)
WellShaped ==
    /\ IsDict(call.snak.d.datavalue)
    /\ (call.pid \in ImagePids \/ SnakDatatype = S("external-id")
          \/ DeclaredType = S("string")) => IsStr(DeclaredValue)
    /\ DeclaredType \in EnumeratedTypes \ {S("string")} => IsDict(DeclaredValue)
    /\ DeclaredType = S("quantity") => NumericAmount(DeclaredValue)

\* the lookup the image rule or the external-id rule makes succeeds
LookupAnswers ==
    /\ call.pid \in ImagePids => call.world.answer.kind # "URLError"
    /\ (call.pid \notin ImagePids /\ SnakDatatype = S("external-id"))
          => call.world.result # NoProperty

IsSnakRecord(o) ==
    /\ o.out = "return" /\ IsDict(o.val)
    /\ DOMAIN o.val.d = {"value", "parse_type", "type"}

NamedMalformed ==
    \/ ~IsDict(call.snak)
    \/ ~HasKey(call.snak, "snaktype")
    \/ /\ HasValueSnaktype /\ HasDatavalue /\ IsDict(call.snak.d.datavalue)
       /\ call.pid \notin ImagePids /\ SnakDatatype # S("external-id")
       /\ \/ /\ DeclaredType \in {S("wikibase-entityid"), S("time"),
                                  S("monolingualtext")}
             /\ ~IsDict(DeclaredValue)
          \/ /\ DeclaredType = S("string") /\ ~IsStr(DeclaredValue)
          \/ /\ DeclaredType = S("quantity") /\ IsDict(DeclaredValue)
             /\ ~NumericAmount(DeclaredValue)

\* C2: parse_snak never raises; on the malformed inputs it logs the problem
\* and returns None.
C2_NeverRaises ==
    SnakDone =>
        /\ ~Raised(ret)
        /\ NamedMalformed => (ret = Return(None) /\ logged = <<LogMessage>>)

\* C2 holds of utils.py's parse_snak, which catches every exception
C2_LegacyNeverRaises == call.op = "legacy_parse_snak" => C2_NeverRaises

\* the rule C3's precedence names for the call's snak
NamedRule ==
    IF call.pid \in ImagePids THEN "image"
    ELSE IF SnakDatatype = S("external-id") THEN "external-id"
    ELSE IF DeclaredType \in EnumeratedTypes \ {S("quantity")}
    THEN DeclaredType.s[1]
    ELSE IF /\ DeclaredType = S("quantity")
            /\ IsDict(DeclaredValue) /\ HasKey(DeclaredValue, "amount")
    THEN "quantity"
    ELSE "unparsed"

CommonsPrefix == <<"https://commons.wikimedia.org", "/wiki/File:">>

\* the value is the url the Commons API named, or the Commons file page
IsImageUrl(v) ==
    /\ IsStr(v)
    /\ \/ call.world.answer.kind = "url" /\ v = call.world.answer.url
       \/ Len(v.s) > 2 /\ SubSeq(v.s, 1, 2) = CommonsPrefix

\* C3: the record parse_snak returns follows the precedence: an image url
\* with parse_type 'image' for P18 and P154 whatever the datatype; else a
\* {url, label} value for datatype 'external-id'; else the rule of the
\* datavalue's type; and a type outside the enumeration is returned as
\* 'Unable To Parse Value <type>', not dropped.
C3_RulePrecedence ==
    (pc = "done" /\ call.op = "parse_snak" /\ HasValueSnaktype /\ HasDatavalue
       /\ IsDict(call.snak.d.datavalue)) =>
        /\ IsSnakRecord(ret) =>
             LET value == ret.val.d.value
                 parse_type == ret.val.d.parse_type
             IN CASE NamedRule = "image" ->
                       parse_type = S("image") /\ IsImageUrl(value)
                  [] NamedRule = "external-id" ->
                       /\ IsDict(value) /\ DOMAIN value.d = {"url", "label"}
                       /\ value.d.label = DeclaredValue
                       /\ parse_type = S("external-id")
                  [] NamedRule = "string" ->
                       value = DeclaredValue /\ parse_type \in {S("url"), SnakDatatype}
                  [] NamedRule = "wikibase-entityid" ->
                       /\ parse_type = Get(DeclaredValue, "entity-type", None)
                       /\ value = IF parse_type = S("property")
                                  THEN Str(<<"P">> \o Fmt(DeclaredValue.d["numeric-id"]))
                                  ELSE Get(DeclaredValue, "id", None)
                  [] NamedRule = "time" ->
                       /\ parse_type = S("time")
                       /\ value \in {Get(DeclaredValue, "time", None),
                                     time_formatter(Get(DeclaredValue, "time", None))}
                  [] NamedRule = "quantity" ->
                       value.k \in {"int", "float"} /\ parse_type = SnakDatatype
                  [] NamedRule = "monolingualtext" ->
                       /\ IsStr(value) /\ Head(value.s) = "\""
                       /\ parse_type = SnakDatatype
                  [] OTHER ->
                       /\ value = Str(<<"Unable To Parse Value ">> \o Fmt(DeclaredType))
                       /\ parse_type = SnakDatatype
        /\ (call.pid \notin ImagePids /\ SnakDatatype # S("external-id")
              /\ DeclaredType \notin EnumeratedTypes)
             => /\ IsSnakRecord(ret)
                /\ ret.val.d.value =
                      Str(<<"Unable To Parse Value ">> \o Fmt(DeclaredType))

\* C3's case: an image property whose snak says 'external-id' is still an image
C3_Witness ==
    /\ pc = "done" /\ call.op = "parse_snak" /\ call.pid = P18
    /\ HasValueSnaktype /\ HasDatavalue
    /\ SnakDatatype = S("external-id")
    /\ IsSnakRecord(ret) /\ ret.val.d.parse_type = S("image")

-----------------------------------------------------------------------------
(* utils/__init__.py: the entity detail parser *)

\* a dict whose iteration order the code relies on: keys lists its keys in
\* insertion order
OrderedDict(pairs) ==
    [k |-> "dict",
     d |-> [key \in {pairs[i][1] : i \in 1..Len(pairs)} |->
              LET i == CHOOSE j \in 1..Len(pairs) : pairs[j][1] = key
              IN pairs[i][2]],
     keys |-> [i \in 1..Len(pairs) |-> pairs[i][1]]]

\* dict.items()
Items(v) == [i \in 1..Len(v.keys) |-> <<v.keys[i], v.d[v.keys[i]]>>]

\* int(entity[1:])
entity_id_to_int(entity) == DigitsToNat(Tail(entity.s))

RECURSIVE InsertSorted(_, _)
\* pair goes after every pair whose key is not greater: sorted() is stable
InsertSorted(sorted, pair) ==
    IF sorted = <<>> THEN <<pair>>
    ELSE IF entity_id_to_int(pair[1]) < entity_id_to_int(Head(sorted)[1])
         THEN <<pair>> \o sorted
         ELSE <<Head(sorted)>> \o InsertSorted(Tail(sorted), pair)

RECURSIVE SortedByEntityId(_)
\* sorted(claims.items(), key=lambda x: _entity_id_to_int(x[0]))
SortedByEntityId(pairs) ==
    IF pairs = <<>> THEN <<>>
    ELSE InsertSorted(SortedByEntityId(SubSeq(pairs, 1, Len(pairs) - 1)),
                      pairs[Len(pairs)])

\* get_lang taking the configured language's value whenever the key is there
get_lang_whenever_present(dict, default, config) ==
    IF ~Truthy(dict) THEN default
    ELSE IF HasKey(dict, config.lang) THEN dict.d[config.lang]
    ELSE Get(dict, config.fb, default)

\* config is the pair WIKIDATA_LANG, WIKIDATA_FB_LANG
get_lang(dict, default, config) ==
    IF ~Truthy(dict) THEN default
    ELSE LET value == Get(dict, config.lang, None)
         IN IF Truthy(value) THEN value ELSE Get(dict, config.fb, default)

parse_wd_response_by_key(item, key, default, config) ==
    LET value_dict == Get(item, key, None)
    IN IF Truthy(value_dict)
       THEN LET values == get_lang(value_dict, default, config)
            IN IF IsList(values)
               THEN List([i \in 1..Len(values.l) |-> Get(values.l[i], "value", None)])
               ELSE IF IsDict(values) THEN Get(values, "value", values)
               ELSE values
       ELSE default

\* f"{WIKIDATA_ENTITY_BASE_URL}/{qid}"
format_item_url(qid) == Str(<<"WIKIDATA_ENTITY_BASE_URL", "/">> \o qid.s)

ReadingMessage == "Exception reading QID: %s"

\* fetch is what WDItemEngine(wd_item_id=qid) did: the item's JSON, or the
\* exception it raised
get_item_json(fetch) ==
    IF fetch.kind = "json" THEN [outcome |-> Return(fetch.item), logs |-> <<>>]
    ELSE IF fetch.kind \in {"ValueError", "ConnectionAbortedError"}
    THEN [outcome |-> Return(None), logs |-> <<ReadingMessage>>]
    ELSE [outcome |-> Raise(fetch.kind), logs |-> <<>>]

\* utils.py: except (ValueError, ConnectionAbortedError, Exception)
legacy_get_item_json(fetch) ==
    IF fetch.kind = "json" THEN [outcome |-> Return(fetch.item), logs |-> <<>>]
    ELSE [outcome |-> Return(None), logs |-> <<ReadingMessage>>]

\* the element of a one-element set: The({ e(x) : x \in {v} }) is e(v) with v
\* evaluated once
The(singleton) == CHOOSE x \in singleton : TRUE

RECURSIVE snak_list_values(_, _, _)
\* the inner loop of _parse_snak_set: the values of the snaks that parse
snak_list_values(pid, snak_list, world) ==
    IF snak_list = <<>> THEN [outcome |-> Return(<<>>), logs |-> <<>>]
    ELSE The({
         LET logs == IF val.logged THEN <<LogMessage>> ELSE <<>>
         IN IF Raised(val.outcome) THEN [outcome |-> val.outcome, logs |-> logs]
            ELSE The({ [outcome |->
                          IF Raised(rest.outcome) THEN rest.outcome
                          ELSE Return((IF Truthy(val.outcome.val)
                                       THEN <<val.outcome.val>> ELSE <<>>)
                                      \o rest.outcome.val),
                        logs |-> logs \o rest.logs] :
                       rest \in {snak_list_values(pid, Tail(snak_list), world)} }) :
         val \in {parse_snak(pid, Head(snak_list), world.answer, world.result)} })

RECURSIVE snak_set_items(_, _)
\* the outer loop of _parse_snak_set, over snak_set.items()
snak_set_items(items, world) ==
    IF items = <<>> THEN [outcome |-> Return(<<>>), logs |-> <<>>]
    ELSE The({
         IF Raised(values.outcome) THEN values
         ELSE The({ [outcome |->
                       IF Raised(rest.outcome) THEN rest.outcome
                       ELSE Return((IF values.outcome.val # <<>>
                                    THEN <<Dict([pid |-> Head(items)[1],
                                                 values |-> List(values.outcome.val)])>>
                                    ELSE <<>>)
                                   \o rest.outcome.val),
                     logs |-> values.logs \o rest.logs] :
                    rest \in {snak_set_items(Tail(items), world)} }) :
         values \in {snak_list_values(Head(items)[1], Head(items)[2].l, world)} })

parse_snak_set(snak_set, world) ==
    IF Truthy(snak_set)
    THEN The({ [outcome |-> IF Raised(parsed.outcome) THEN parsed.outcome
                            ELSE Return(List(parsed.outcome.val)),
                logs |-> parsed.logs] :
               parsed \in {snak_set_items(Items(snak_set), world)} })
    ELSE [outcome |-> Return(List(<<>>)), logs |-> <<>>]

parse_qualifiers(json_details, world) ==
    parse_snak_set(Get(json_details, "qualifiers", None), world)

parse_references(json_details, world) ==
    LET reference_list == Get(json_details, "references", None)
    IN IF Truthy(reference_list)
       THEN parse_snak_set(Get(reference_list.l[1], "snaks", None), world)
       ELSE [outcome |-> Return(List(<<>>)), logs |-> <<>>]


P279 == Str(<<"P", "2", "7", "9">>)
CategoryPids == {P31, P279}

RECURSIVE claim_values(_, _, _)
\* lines 327-344: the statements of one property, in order; what the loop
\* leaves in value_list, add_to_ex_list and (appended to) categories
claim_values(pid, statements, world) ==
    IF statements = <<>>
    THEN [outcome |-> Return([value_list |-> <<>>, add_to_ex_list |-> FALSE,
                              categories |-> <<>>]),
          logs |-> <<>>]
    ELSE The({
         LET logs == IF val.logged THEN <<LogMessage>> ELSE <<>>
         IN IF Raised(val.outcome) THEN [outcome |-> val.outcome, logs |-> logs]
            ELSE IF ~Truthy(val.outcome.val)
            THEN [outcome |-> rest.outcome, logs |-> logs \o rest.logs]
            ELSE The({
                 IF Raised(references.outcome)
                 THEN [outcome |-> references.outcome,
                       logs |-> logs \o references.logs]
                 ELSE IF Raised(qualifiers.outcome)
                 THEN [outcome |-> qualifiers.outcome,
                       logs |-> logs \o references.logs \o qualifiers.logs]
                 ELSE LET full == Dict([references |-> references.outcome.val,
                                        qualifiers |-> qualifiers.outcome.val]
                                       @@ val.outcome.val.d)
                          external ==
                              Get(full, "parse_type", None) = S("external-id")
                      IN [outcome |->
                            IF Raised(rest.outcome) THEN rest.outcome
                            ELSE Return(
                              [value_list |-> <<full>> \o rest.outcome.val.value_list,
                               add_to_ex_list |->
                                   external \/ rest.outcome.val.add_to_ex_list,
                               categories |->
                                   (IF ~external /\ pid \in CategoryPids
                                    THEN <<full>> ELSE <<>>)
                                   \o rest.outcome.val.categories]),
                          logs |-> logs \o references.logs \o qualifiers.logs
                                   \o rest.logs] :
                 references \in {parse_references(Head(statements), world)},
                 qualifiers \in {parse_qualifiers(Head(statements), world)} }) :
         val \in {parse_snak(pid, Get(Head(statements), "mainsnak", None),
                             world.answer, world.result)},
         rest \in {claim_values(pid, Tail(statements), world)} })

RECURSIVE claim_lists(_, _)
\* lines 326-349, over sorted_claims: claim_list, ex_list and categories
claim_lists(sorted_claims, world) ==
    IF sorted_claims = <<>>
    THEN [outcome |-> Return([claim_list |-> <<>>, ex_list |-> <<>>,
                              categories |-> <<>>]),
          logs |-> <<>>]
    ELSE The({
         IF Raised(values.outcome) THEN values
         ELSE LET parsed_claim == Dict([pid |-> Head(sorted_claims)[1],
                                        values |-> List(values.outcome.val.value_list)])
                  external == values.outcome.val.add_to_ex_list
              IN [outcome |->
                    IF Raised(rest.outcome) THEN rest.outcome
                    ELSE Return(
                      [claim_list |-> (IF external THEN <<>> ELSE <<parsed_claim>>)
                                      \o rest.outcome.val.claim_list,
                       ex_list |-> (IF external THEN <<parsed_claim>> ELSE <<>>)
                                   \o rest.outcome.val.ex_list,
                       categories |-> values.outcome.val.categories
                                      \o rest.outcome.val.categories]),
                  logs |-> values.logs \o rest.logs] :
         values \in {claim_values(Head(sorted_claims)[1],
                                  Head(sorted_claims)[2].l, world)},
         rest \in {claim_lists(Tail(sorted_claims), world)} })

\* item_json.get('claims', {})
get_claims_from_json(item_json) == Get(item_json, "claims", OrderedDict(<<>>))

add_claim_data_item_context(context, item, world) ==
    LET claims == get_claims_from_json(item)
    IN The({ [outcome |->
                IF Raised(lists.outcome) THEN lists.outcome
                ELSE Return(Dict([external_links |-> List(lists.outcome.val.ex_list),
                                  claims |-> List(lists.outcome.val.claim_list),
                                  categories |-> List(lists.outcome.val.categories)]
                                 @@ context.d)),
              logs |-> lists.logs] :
             lists \in {claim_lists(SortedByEntityId(Items(claims)), world)} })

ItemLabelDefault(qid) == Str(<<"Item ">> \o Fmt(qid))

item_detail_parse(qid, with_claims, world, config) ==
    LET item == get_item_json(world.fetch)
    IN IF Raised(item.outcome) THEN item
       ELSE IF ~Truthy(item.outcome.val)
       THEN [outcome |-> Return(PyBool(FALSE)), logs |-> item.logs]
       ELSE LET json == item.outcome.val
                context ==
                    Dict([aliases |-> parse_wd_response_by_key(
                                          json, "aliases", List(<<>>), config),
                          description |-> parse_wd_response_by_key(
                                          json, "descriptions", Str(<<>>), config),
                          label |-> parse_wd_response_by_key(
                                          json, "labels", ItemLabelDefault(qid), config),
                          qid |-> qid,
                          url |-> format_item_url(qid)])
            IN IF with_claims
               THEN The({ [outcome |-> full.outcome,
                           logs |-> item.logs \o full.logs] :
                          full \in {add_claim_data_item_context(context, json,
                                                                world)} })
               ELSE [outcome |-> Return(context), logs |-> item.logs]

\* utils.py lines 178-186 and 215-216: item_detail_parse without claims
legacy_item_detail_parse(qid, world, config) ==
    LET item == legacy_get_item_json(world.fetch)
    IN IF Truthy(item.outcome.val)
       THEN LET json == item.outcome.val
            IN [outcome |->
                  Return(Dict([qid |-> qid,
                               label |-> parse_wd_response_by_key(
                                           json, "labels", ItemLabelDefault(qid), config),
                               aliases |-> parse_wd_response_by_key(
                                           json, "aliases", List(<<>>), config),
                               description |-> parse_wd_response_by_key(
                                           json, "descriptions", Str(<<>>), config)])),
                logs |-> item.logs]
       ELSE [outcome |-> Return(PyBool(FALSE)), logs |-> item.logs]

-----------------------------------------------------------------------------
(* Entities the knowledge base can hold, and the calls of item_detail_parse *)

\* one entry of wd_json_representation's labels / descriptions / aliases
Mono(lang, text) == Dict([language |-> S(lang), value |-> S(text)])

LabelSets ==
    { Absent, Dict(<<>>),
      Dict([en |-> Mono("en", "Douglas Adams")]),
      Dict([fr |-> Mono("fr", "Douglas Noel Adams")]),
      Dict([de |-> Mono("de", "Douglas N. Adams")]),
      Dict([en |-> Mono("en", "Douglas Adams"),
            fr |-> Mono("fr", "Douglas Noel Adams")]) }

DescriptionSets == { Absent, Dict([en |-> Mono("en", "English writer")]) }

AliasSets ==
    { Absent,
      Dict([en |-> List(<<Mono("en", "DNA"), Mono("en", "Douglas N. Adams")>>)]),
      Dict([de |-> List(<<Mono("de", "DNA")>>)]) }

\* WIKIDATA_LANG and WIKIDATA_FB_LANG as the application can be configured
Configs == { [lang |-> "en", fb |-> "en"], [lang |-> "fr", fb |-> "en"] }

ItemSnak ==
    Dict([snaktype |-> S("value"), datatype |-> S("wikibase-item"),
          datavalue |-> Dict([type |-> S("wikibase-entityid"),
                              value |-> Dict(("entity-type" :> S("item"))
                                             @@ ("numeric-id" :> PyInt(42))
                                             @@ ("id" :> Q42))])])
ExternalSnak ==
    Dict([snaktype |-> S("value"), datatype |-> S("external-id"),
          datavalue |-> Dict([type |-> S("string"), value |-> Puid])])
NoValueSnak == Dict([snaktype |-> S("novalue")])
NoTypeSnak ==
    Dict([datatype |-> S("wikibase-item"),
          datavalue |-> Dict([type |-> S("string"), value |-> Title])])
BadAmountSnak ==
    Dict([snaktype |-> S("value"), datatype |-> S("quantity"),
          datavalue |-> Dict([type |-> S("quantity"),
                              value |-> Dict([amount |-> Str(<<"a", "b", "c">>)])])])

\* a statement of an entity's claims
Statement(mainsnak) == Dict([mainsnak |-> mainsnak, rank |-> S("normal")])
QualifiedStatement ==
    Dict([mainsnak |-> ItemSnak,
          rank |-> S("normal"),
          qualifiers |-> OrderedDict(<< <<P2748, List(<<ExternalSnak>>)>> >>),
          references |->
            List(<<Dict([snaks |->
                     OrderedDict(<< <<P31, List(<<ItemSnak, NoValueSnak>>)>> >>)])>>)])
BareStatement == Dict([rank |-> S("normal")])

SoundStatementLists ==
    { <<Statement(ItemSnak)>>,
      <<Statement(ItemSnak), Statement(NoValueSnak)>>,
      <<Statement(ExternalSnak)>>,
      <<Statement(NoTypeSnak), QualifiedStatement>> }

StatementLists ==
    SoundStatementLists
    \cup { <<Statement(ItemSnak), BareStatement>>, <<Statement(BadAmountSnak)>> }

ClaimSets ==
    { Absent, OrderedDict(<<>>) }
    \cup { OrderedDict(<< <<pid, List(sl)>> >>) :
             pid \in {P31, P2748}, sl \in StatementLists }
    \cup { OrderedDict(<< <<P279, List(sl1)>>, <<P31, List(sl2)>> >>) :
             sl1 \in SoundStatementLists, sl2 \in SoundStatementLists }

ItemJson(labels, descriptions, aliases, claims) ==
    Dict(("id" :> Q42) @@ Opt("labels", labels)
         @@ Opt("descriptions", descriptions) @@ Opt("aliases", aliases)
         @@ Opt("claims", claims))

\* every overview with and without a claim, and every claim set under one
\* overview
ItemJsons ==
    { ItemJson(la, de, al, cl) :
        la \in LabelSets, de \in DescriptionSets, al \in AliasSets,
        cl \in {Absent, OrderedDict(<< <<P31, List(<<Statement(ItemSnak)>>)>> >>)} }
    \cup { ItemJson(Dict([en |-> Mono("en", "Douglas Adams")]), Absent, Absent, cl) :
             cl \in ClaimSets }

\* what WDItemEngine(wd_item_id=qid) can do: answer, or raise (requests'
\* ConnectionError is an OSError, neither of the two the code names)
Fetches ==
    { [kind |-> "json", item |-> item] : item \in ItemJsons }
    \cup { [kind |-> e] : e \in {"ValueError", "ConnectionAbortedError",
                                 "ConnectionError"} }

ItemWorlds ==
    { [fetch |-> f, answer |-> w.answer, result |-> w.result] :
        f \in Fetches, w \in Worlds }

ItemCalls ==
    [op : {"item_detail_parse"}, qid : {Q42}, with_claims : BOOLEAN,
     config : Configs, world : ItemWorlds]

InitItem ==
    /\ Fresh
    /\ call \in ItemCalls
    /\ cached_property_labels = Dict(<<>>)

\* utils/__init__.py: item_detail_parse runs
ItemDetailParse ==
    /\ pc = "called" /\ call.op = "item_detail_parse"
    /\ \E o \in {item_detail_parse(call.qid, call.with_claims, call.world,
                                   call.config)} :
          /\ ret' = o.outcome
          /\ logged' = o.logs
    /\ pc' = "done"
    /\ UNCHANGED <<call, puid_queries, writes, cached_property_labels>>
    /\ UNCHANGED <<lookups, pickle_vars>>

NextItem == ItemDetailParse

SpecItem == InitItem /\ [][NextItem]_vars

-----------------------------------------------------------------------------
(* Properties of the entity detail parser                                  *)

ItemDone == pc = "done" /\ call.op = "item_detail_parse"

Fetched == call.world.fetch.kind = "json"

\* what the entity says under a key in language lang, if anything
Said(key, lang) ==
    LET by_lang == Get(call.world.fetch.item, key, Dict(<<>>))
    IN Get(by_lang, lang, None)

\* the entity's entry in the configured language, else in the fallback
\* language, else nothing
Entry(key) ==
    IF ~IsNone(Said(key, call.config.lang)) THEN Said(key, call.config.lang)
    ELSE Said(key, call.config.fb)

ExpectedLabel ==
    IF IsNone(Entry("labels")) THEN Str(<<"Item ">> \o call.qid.s)
    ELSE Entry("labels").d.value

ExpectedDescription ==
    IF IsNone(Entry("descriptions")) THEN Str(<<>>)
    ELSE Entry("descriptions").d.value

ExpectedAliases ==
    IF IsNone(Entry("aliases")) THEN List(<<>>)
    ELSE List([i \in 1..Len(Entry("aliases").l) |-> Entry("aliases").l[i].d.value])

CarriesOverview(context) ==
    /\ IsDict(context)
    /\ Get(context, "qid", None) = call.qid
    /\ Get(context, "label", None) = ExpectedLabel
    /\ Get(context, "description", None) = ExpectedDescription
    /\ Get(context, "aliases", None) = ExpectedAliases

CarriesClaimLists(context) ==
    \A key \in {"claims", "categories", "external_links"} :
        HasKey(context, key) /\ IsList(context.d[key])

\* C4: item_detail_parse returns False when the entity JSON cannot be
\* fetched; otherwise it returns a mapping with the qid, the label ('Item
\* <qid>' without a label in the configured or fallback language), the
\* description ('' when absent) and the aliases ([] when absent), and with
\* with_claims also the lists claims, categories and external links.
C4_ItemDetailParseContract ==
    ItemDone =>
        /\ ~Raised(ret)
        /\ IF Fetched
           THEN /\ CarriesOverview(ret.val)
                /\ call.with_claims => CarriesClaimLists(ret.val)
           ELSE ret.val = PyBool(FALSE)

\* every statement of the fetched entity has a main snak parse_snak accepts
\* (the calls on which parse_snak keeps its own contract)
SoundClaims ==
    LET claims == Get(call.world.fetch.item, "claims", OrderedDict(<<>>))
    IN \A pid \in DOMAIN claims.d :
          \E sl \in SoundStatementLists : claims.d[pid] = List(sl)

\* the part of C4 the code keeps: the fetch answers or raises one of the two
\* exceptions get_item_json names, and no statement is malformed
ItemDetailParseOnSoundCalls ==
    (/\ ItemDone
     /\ call.world.fetch.kind # "ConnectionError"
     /\ Fetched /\ call.with_claims => SoundClaims)
        => /\ ~Raised(ret)
           /\ IF Fetched
              THEN /\ CarriesOverview(ret.val)
                   /\ call.with_claims <=> CarriesClaimLists(ret.val)
              ELSE ret.val = PyBool(FALSE) /\ logged = <<ReadingMessage>>

-----------------------------------------------------------------------------
(* The SPARQL wrapper at work: process_query_string on what the endpoint   *)
(* can answer                                                              *)

\* the most bindings an answer carries
MaxBindings == 2

\* what a binding can hold for one variable: nothing, a literal, a URI, or
\* an entry without a 'value' field
BoundValues ==
    { Absent, Literal(P31), Literal(S("instance of")),
      Dict([type |-> S("uri"), value |-> FormatterUrl]),
      Dict([type |-> S("bnode")]) }

Bindings ==
    { Dict(Opt("id", id) @@ Opt("propertyLabel", label)) :
        id \in BoundValues, label \in BoundValues }

BindingLists ==
    UNION { [1..n -> Bindings] : n \in 0..MaxBindings }

\* answers of execute_sparql_query: well-formed ones, one without bindings,
\* one without results
QueryResults ==
    { SparqlResult(bindings) : bindings \in BindingLists }
    \cup { Dict([results |-> Dict(<<>>)]), Dict([head |-> Dict(<<>>)]) }

QueryCalls == [op : {"process_query_string"}, result : QueryResults]

InitQuery ==
    /\ Fresh
    /\ call \in QueryCalls
    /\ cached_property_labels = Dict(<<>>)

\* wd_int_utils.py / utils.py: process_query_string runs
ProcessQueryString ==
    /\ pc = "called" /\ call.op = "process_query_string"
    /\ ret' = process_query_string(call.result)
    /\ pc' = "done"
    /\ UNCHANGED <<call, logged, puid_queries, writes, cached_property_labels>>
    /\ UNCHANGED <<lookups, pickle_vars>>

NextQuery == ProcessQueryString

SpecQuery == InitQuery /\ [][NextQuery]_vars

QueryDone == pc = "done" /\ call.op = "process_query_string"

HasBindings ==
    /\ HasKey(call.result, "results")
    /\ HasKey(call.result.d.results, "bindings")

\* the bindings of the answer, when it has any
AnsweredBindings ==
    IF HasBindings THEN call.result.d.results.d.bindings.l ELSE <<>>

\* C7: process_query_string returns one mapping per binding of the SPARQL
\* result, in the same order, each with exactly the binding's variable names
\* as keys, each mapped to the 'value' field of that variable's binding.
C7_BindingsFlattened ==
    (QueryDone /\ HasBindings) =>
        /\ ~Raised(ret)
        /\ IsList(ret.val)
        /\ Len(ret.val.l) = Len(AnsweredBindings)
        /\ \A i \in 1..Len(AnsweredBindings) :
              /\ IsDict(ret.val.l[i])
              /\ DOMAIN ret.val.l[i].d = DOMAIN AnsweredBindings[i].d
              /\ \A name \in DOMAIN AnsweredBindings[i].d :
                    LET bound == AnsweredBindings[i].d[name]
                    IN ret.val.l[i].d[name] =
                          IF HasKey(bound, "value") THEN bound.d.value ELSE None

\* two different bindings, the first binding two variables, flattened
C7_Witness ==
    /\ QueryDone /\ HasBindings
    /\ Len(AnsweredBindings) = 2
    /\ AnsweredBindings[1] # AnsweredBindings[2]
    /\ DOMAIN AnsweredBindings[1].d = {"id", "propertyLabel"}
    /\ ~Raised(ret)
    /\ ret.val.l[1].d.id = P31

-----------------------------------------------------------------------------
(* models.py: PuidSearchResult, and controllers/search.py                  *)

EntityPrefix == "http://www.wikidata.org/entity/"

\* PuidSearchResult(format, label, description, mime, puid)
PuidSearchResult(format, label, description, mime, puid) ==
    [k |-> "PuidSearchResult", format |-> format, label |-> label,
     description |-> description, mime |-> mime, puid |-> puid]

\* x[name]['value']
BoundValue(x, name) ==
    IF HasKey(x, name) /\ HasKey(x.d[name], "value")
    THEN Return(x.d[name].d.value) ELSE Raise("KeyError")

RECURSIVE assemble_bindings(_)
\* the list comprehension of _assemble_results
assemble_bindings(bindings) ==
    IF bindings = <<>> THEN Return(<<>>)
    ELSE LET x == Head(bindings)
             format == BoundValue(x, "format")
             label == BoundValue(x, "formatLabel")
             description == BoundValue(x, "formatDescription")
             mime == IF HasKey(x, "mime") THEN BoundValue(x, "mime")
                     ELSE Return(S("unknown"))
             puid == BoundValue(x, "puid")
         IN IF \E o \in {format, label, description, mime, puid} : Raised(o)
            THEN Raise("KeyError")
            ELSE LET rest == assemble_bindings(Tail(bindings))
                 IN IF Raised(rest) THEN rest
                    ELSE Return(
                      <<PuidSearchResult(
                          Str(ReplaceWith(format.val.s, EntityPrefix, <<>>)),
                          label.val, description.val, mime.val, puid.val)>>
                      \o rest.val)

assemble_results(results_json) ==
    IF ~HasKey(results_json, "results")
       \/ ~HasKey(results_json.d.results, "bindings")
    THEN Raise("KeyError")
    ELSE assemble_bindings(results_json.d.results.d.bindings.l)

\* the query goes out for puid, as given; results_json is its answer
search_puid(puid, lang, results_json) ==
    [outcome |-> assemble_results(results_json),
     queries |-> <<[puid |-> puid, lang |-> lang]>>]

\* const.py: LANG and FALLBACK_LANG
ConstLang == [lang |-> "en", fb |-> "en"]

\* result_qid_list[:10]
SearchLimit == 10

Min(a, b) == IF a < b THEN a ELSE b

RECURSIVE search_result_items(_, _)
\* item_detail_parse(qid, with_claims=False) for each qid of the loop of
\* search_result_list, in turn
search_result_items(qids, fetches) ==
    IF qids = <<>> THEN [items |-> <<>>, logs |-> <<>>]
    ELSE LET item == legacy_item_detail_parse(Head(qids),
                                              [fetch |-> fetches[Head(qids)]],
                                              ConstLang)
             rest == search_result_items(Tail(qids), fetches)
         IN [items |-> <<item.outcome.val>> \o rest.items,
             logs |-> item.logs \o rest.logs]

\* search_result_list appending whatever item_detail_parse returned
search_result_list_unfiltered(world) ==
    LET result_qid_list == world.hits
        found == search_result_items(
                     SubSeq(result_qid_list, 1,
                            Min(SearchLimit, Len(result_qid_list))),
                     world.fetches)
    IN [outcome |-> Return(List(found.items)), logs |-> found.logs]

\* world.hits is what get_wd_search_results answered for the string; an
\* item is appended to output "if item"
search_result_list(world) ==
    LET result_qid_list == world.hits
        found == search_result_items(
                     SubSeq(result_qid_list, 1,
                            Min(SearchLimit, Len(result_qid_list))),
                     world.fetches)
    IN [outcome |-> Return(List(SelectSeq(found.items, Truthy))),
        logs |-> found.logs]

\* one optional character of [x-], then fmt/, then a digit, starting at i
PuidPatternAt(cs, i) ==
    \E skip \in {0, 1} :
        /\ skip = 1 => cs[i] \in {"x", "-"}
        /\ i + skip + 4 <= Len(cs)
        /\ SubSeq(cs, i + skip, i + skip + 3) = <<"f", "m", "t", "/">>
        /\ cs[i + skip + 4] \in Digits

\* re.search("[x-]?fmt/\d+", search_string) is not None
re_search_puid(cs) == \E i \in 1..Len(cs) : PuidPatternAt(cs, i)

PuidEntry(res) ==
    Dict([qid |-> res.format, label |-> res.label,
          description |-> res.description])

get_search_result_context(search_string, world) ==
    LET by_text == search_result_list(world)
    IN IF re_search_puid(search_string.s)
       THEN LET result == search_puid(search_string, ConstLang.lang,
                                      world.puid_result)
            IN IF Raised(result.outcome)
               THEN [outcome |-> result.outcome, logs |-> <<>>,
                     queries |-> result.queries]
               ELSE [outcome |->
                       Return(List([i \in 1..Len(result.outcome.val) |->
                                      PuidEntry(result.outcome.val[i])]
                                   \o by_text.outcome.val.l)),
                     logs |-> by_text.logs,
                     queries |-> result.queries]
       ELSE [outcome |-> by_text.outcome, logs |-> by_text.logs,
             queries |-> <<>>]

-----------------------------------------------------------------------------
(* Searches: what is typed, what the text search and the PUID query answer *)

\* the longest hit list the text search answers with
MaxHits == 11

Q1 == Str(<<"Q", "1">>)
Q7 == Str(<<"Q", "7">>)

\* Q42 has a label and a description, Q7 has neither, Q1 cannot be fetched
KnownQids == <<Q42, Q1, Q7>>

KnownFetches ==
    (Q42 :> [kind |-> "json",
             item |-> Dict([id |-> Q42,
                            labels |-> Dict([en |-> Mono("en", "Douglas Adams")]),
                            descriptions |->
                                Dict([en |-> Mono("en", "English writer")])])])
    @@ (Q7 :> [kind |-> "json", item |-> Dict([id |-> Q7])])
    @@ (Q1 :> [kind |-> "ValueError"])

HitLists ==
    { [i \in 1..n |-> KnownQids[((i + shift) % 3) + 1]] :
        n \in 0..MaxHits, shift \in 0..2 }
    \cup UNION { [1..n -> {Q42, Q1, Q7}] : n \in 0..2 }

Uri(qid) == Dict([type |-> S("uri"), value |-> Str(<<EntityPrefix>> \o qid.s)])

\* a binding of the PUID query: ?mime is OPTIONAL in the query, and the
\* label service leaves ?formatDescription unbound for a format without a
\* description in the language
PuidBinding(qid, description, mime) ==
    Dict([format |-> Uri(qid),
          formatLabel |-> Literal(S("Portable Document Format")),
          puid |-> Literal(Str(<<"f", "m", "t", "/", "1", "2">>))]
         @@ Opt("formatDescription", description)
         @@ Opt("mime", mime))

FileFormatText == Literal(S("file format"))
PdfMime == Literal(S("application/pdf"))

PuidResults ==
    { SparqlResult(<<>>),
      SparqlResult(<<PuidBinding(Q42, FileFormatText, PdfMime)>>),
      SparqlResult(<<PuidBinding(Q7, FileFormatText, Absent)>>),
      SparqlResult(<<PuidBinding(Q7, FileFormatText, Absent),
                     PuidBinding(Q42, FileFormatText, PdfMime)>>),
      SparqlResult(<<PuidBinding(Q42, Absent, PdfMime)>>),
      SparqlResult(<<PuidBinding(Q7, FileFormatText, PdfMime),
                     PuidBinding(Q42, Absent, Absent)>>) }

SearchStrings ==
    { Str(<<>>),
      Str(<<"p", "d", "f">>),
      Str(<<"f", "m", "t", "/">>),
      Str(<<"f", "m", "t", "/", "a">>),
      Str(<<"f", "m", "/", "1">>),
      Str(<<"f", "m", "t", "/", "1", "2">>),
      Str(<<"x", "-", "f", "m", "t", "/", "1">>),
      Str(<<"x", "f", "m", "t", "/", "9">>),
      Str(<<"a", " ", "f", "m", "t", "/", "3", "b">>),
      Str(<<"f", "m", "t", "/", "x", "-", "f", "m", "t", "/", "4">>) }

SearchWorlds ==
    [hits : HitLists, fetches : {KnownFetches}, puid_result : PuidResults]

SearchCalls ==
    [op : {"search_result_list", "get_search_result_context"},
     search_string : SearchStrings, world : SearchWorlds]

InitSearch ==
    /\ Fresh
    /\ call \in SearchCalls
    /\ cached_property_labels = Dict(<<>>)

\* controllers/search.py: search_result_list runs
SearchResultList ==
    /\ pc = "called" /\ call.op = "search_result_list"
    /\ LET o == search_result_list(call.world)
       IN /\ ret' = o.outcome
          /\ logged' = o.logs
    /\ pc' = "done"
    /\ UNCHANGED <<call, puid_queries, writes, cached_property_labels>>
    /\ UNCHANGED <<lookups, pickle_vars>>

\* controllers/search.py: get_search_result_context runs
GetSearchResultContext ==
    /\ pc = "called" /\ call.op = "get_search_result_context"
    /\ LET o == get_search_result_context(call.search_string, call.world)
       IN /\ ret' = o.outcome
          /\ logged' = o.logs
          /\ puid_queries' = o.queries
    /\ pc' = "done"
    /\ UNCHANGED <<call, writes, cached_property_labels>>
    /\ UNCHANGED <<lookups, pickle_vars>>

NextSearch == SearchResultList \/ GetSearchResultContext

SpecSearch == InitSearch /\ [][NextSearch]_vars

-----------------------------------------------------------------------------
(* Properties of the search controller                                     *)

ListDone == pc = "done" /\ call.op = "search_result_list"
ContextDone == pc = "done" /\ call.op = "get_search_result_context"

\* what item_detail_parse(qid, with_claims=False) returns for a hit
EntryOf(qid) ==
    legacy_item_detail_parse(qid, [fetch |-> call.world.fetches[qid]],
                             ConstLang).outcome.val

\* C5: for every qid in the search result list, the output of
\* search_result_list contains the entry item_detail_parse(qid,
\* with_claims=False) produced for it, in hit order.
C5_EveryHitMapped ==
    ListDone =>
        /\ ~Raised(ret)
        /\ Len(ret.val.l) = Len(call.world.hits)
        /\ \A i \in 1..Len(call.world.hits) :
              ret.val.l[i] = EntryOf(call.world.hits[i])

\* positions among the first SearchLimit hits whose entity could be fetched
KeptHits ==
    { i \in 1..Min(SearchLimit, Len(call.world.hits)) :
        IsDict(EntryOf(call.world.hits[i])) }

\* the position of the j-th kept hit
NthKept(j) ==
    CHOOSE i \in KeptHits : Cardinality({k \in KeptHits : k <= i}) = j

\* C5 (amended): the output of search_result_list consists of the entries
\* item_detail_parse(qid, with_claims=False) returned for the first 10 hits,
\* in hit order, without the hits for which it returned False.
C5_FirstTenFetchedHitsMapped ==
    ListDone =>
        /\ ~Raised(ret)
        /\ Len(ret.val.l) = Cardinality(KeptHits)
        /\ \A j \in 1..Cardinality(KeptHits) :
              ret.val.l[j] = EntryOf(call.world.hits[NthKept(j)])

\* more hits than the limit, an unfetchable one among the first ten, and
\* two different entries in the output
C5_Witness ==
    /\ ListDone
    /\ Len(call.world.hits) > SearchLimit
    /\ \E i \in 1..SearchLimit : call.world.hits[i] = Q1
    /\ ~Raised(ret)
    /\ Len(ret.val.l) > 1
    /\ ret.val.l[1] # ret.val.l[2]

\* the search string contains 'fmt/' followed by a digit
ContainsFmtDigit ==
    LET cs == call.search_string.s
    IN \E i \in 1..Len(cs) :
          /\ i + 4 <= Len(cs)
          /\ cs[i] = "f" /\ cs[i + 1] = "m" /\ cs[i + 2] = "t"
          /\ cs[i + 3] = "/"
          /\ cs[i + 4] \in Digits

PuidHits == call.world.puid_result.d.results.d.bindings.l

\* the entry the claim expects for a PUID hit
ExpectedPuidEntry(x) ==
    Dict([qid |-> Str(Tail(x.d.format.d.value.s)),
          label |-> x.d.formatLabel.d.value,
          description |-> Get(Get(x, "formatDescription", Dict(<<>>)),
                              "value", None)])

ByText == search_result_list(call.world).outcome.val.l

\* C6: get_search_result_context runs the PUID search exactly when the
\* search string contains 'fmt/' followed by a digit; then every PUID hit
\* appears in the context as a {qid, label, description} entry, all of them
\* before the text-search entries; otherwise no PUID query is issued and the
\* context equals search_result_list(search_string).
C6_PuidSearchContext ==
    ContextDone =>
        /\ (puid_queries # <<>>) <=> ContainsFmtDigit
        /\ ~Raised(ret)
        /\ IF ContainsFmtDigit
           THEN /\ Len(puid_queries) = 1
                /\ ret.val.l =
                      [i \in 1..Len(PuidHits) |-> ExpectedPuidEntry(PuidHits[i])]
                      \o ByText
           ELSE ret.val.l = ByText

\* every PUID hit comes with a description
HitsDescribed ==
    \A i \in 1..Len(PuidHits) : HasKey(PuidHits[i], "formatDescription")

\* the part of C6 the code keeps: on PUID hits that all carry a description
SearchContextOnDescribedHits ==
    (ContextDone /\ HitsDescribed) =>
        /\ (puid_queries # <<>>) <=> ContainsFmtDigit
        /\ ~Raised(ret)
        /\ IF ContainsFmtDigit
           THEN /\ puid_queries = <<[puid |-> call.search_string, lang |-> "en"]>>
                /\ ret.val.l =
                      [i \in 1..Len(PuidHits) |-> ExpectedPuidEntry(PuidHits[i])]
                      \o ByText
           ELSE ret.val.l = ByText

\* a PUID hit without a description ends the search with a KeyError
SearchContextOnUndescribedHit ==
    (ContextDone /\ ContainsFmtDigit /\ ~HitsDescribed)
        => ret = Raise("KeyError")

-----------------------------------------------------------------------------
(* controllers/api.py: writing claims, and routes/api.py                   *)

\* the classes of wikidataintegrator the names stand for
STRING_TO_WD_DATATYPE ==
    (S("WikibaseItem") :> "WDItemID") @@ (S("String") :> "WDString")

\* the class called with the arguments: the instance holds what it was given
Instance(class, kwargs) == [k |-> "instance", class |-> class, kwargs |-> kwargs]

\* the subscript raises KeyError for a name that is not a key, before the
\* assertion is reached; a class is never falsy
wd_datatype(data_type_string, kwargs) ==
    IF data_type_string \notin DOMAIN STRING_TO_WD_DATATYPE
    THEN Raise("KeyError")
    ELSE LET wd_datatype_class == STRING_TO_WD_DATATYPE[data_type_string]
         IN IF wd_datatype_class = "" THEN Raise("AssertionError")
            ELSE Return(Instance(wd_datatype_class, kwargs))

RECURSIVE datatype_list(_, _)
\* [wd_datatype(x.get('type'), value=x.get('value'), prop_nr=x.get("pid"),
\*  <flag>=True) for x in data]
datatype_list(data, flag) ==
    IF data = <<>> THEN Return(<<>>)
    ELSE LET x == Head(data)
             first == wd_datatype(Get(x, "type", None),
                                  (flag :> TRUE)
                                  @@ [value |-> Get(x, "value", None),
                                      prop_nr |-> Get(x, "pid", None)])
         IN IF Raised(first) THEN first
            ELSE LET rest == datatype_list(Tail(data), flag)
                 IN IF Raised(rest) THEN rest
                    ELSE Return(<<first.val>> \o rest.val)

\* build_statement giving every reference a group of its own
build_statement_group_each(prop, value, data_type, qualifier_data, reference_data) ==
    IF ~IsList(qualifier_data) THEN Raise("TypeError")
    ELSE LET qualifiers == datatype_list(qualifier_data.l, "is_qualifier")
         IN IF Raised(qualifiers) THEN qualifiers
            ELSE IF ~IsList(reference_data) THEN Raise("TypeError")
            ELSE LET references == datatype_list(reference_data.l, "is_reference")
                 IN IF Raised(references) THEN references
                    ELSE wd_datatype(data_type,
                                     [prop_nr |-> prop, value |-> value,
                                      qualifiers |-> qualifiers.val,
                                      references |->
                                          [i \in 1..Len(references.val) |->
                                              <<references.val[i]>>]])

\* iterating None raises TypeError
build_statement(prop, value, data_type, qualifier_data, reference_data) ==
    IF ~IsList(qualifier_data) THEN Raise("TypeError")
    ELSE LET qualifiers == datatype_list(qualifier_data.l, "is_qualifier")
         IN IF Raised(qualifiers) THEN qualifiers
            ELSE IF ~IsList(reference_data) THEN Raise("TypeError")
            ELSE LET references == datatype_list(reference_data.l, "is_reference")
                 IN IF Raised(references) THEN references
                    ELSE wd_datatype(data_type,
                                     [prop_nr |-> prop, value |-> value,
                                      qualifiers |-> qualifiers.val,
                                      references |-> <<references.val>>])

RECURSIVE build_statements(_)
\* the list comprehension of write_claims_to_item
build_statements(json_data) ==
    IF json_data = <<>> THEN Return(<<>>)
    ELSE LET claim_data == Head(json_data)
             first == build_statement(Get(claim_data, "pid", None),
                                      Get(claim_data, "value", None),
                                      Get(claim_data, "type", None),
                                      Get(claim_data, "qualifiers", None),
                                      Get(claim_data, "references", None))
         IN IF Raised(first) THEN first
            ELSE LET rest == build_statements(Tail(json_data))
                 IN IF Raised(rest) THEN rest
                    ELSE Return(<<first.val>> \o rest.val)

\* WDLogin(mediawiki_api_url=..., user=..., pwd=...)
build_login == [user |-> "WIKIDATA_USER_NAME", pwd |-> "WIKIDATA_PASSWORD"]

SuccessMessage(count, label, qid) ==
    Str(<<"Successfully Contributed ">> \o NatToDigits(count)
        \o <<" Statements to Wikidata Item '">> \o label.s \o <<"' (">>
        \o qid.s \o <<").">>)

\* jsonify({...})
jsonify(mapping) == [k |-> "response", json |-> mapping]

\* world.fails names the call of the client library that raises, if any;
\* world.label is the item's label
write_claims_to_item(qid, json_data, world) ==
    LET data == build_statements(json_data.l)
    IN IF Raised(data) THEN [outcome |-> data, writes |-> <<>>]
       ELSE IF world.fails = "WDItemEngine"
       THEN [outcome |-> Raise("ValueError"), writes |-> <<>>]
       ELSE IF world.fails = "WDLogin"
       THEN [outcome |-> Raise("WDLoginError"), writes |-> <<>>]
       ELSE LET write == [qid |-> qid, data |-> data.val, login |-> build_login]
            IN IF world.fails = "write"
               THEN [outcome |-> Raise("WDApiError"), writes |-> <<>>]
               ELSE [outcome |->
                       Return(jsonify(Dict(
                         [message |-> SuccessMessage(Len(data.val), world.label, qid),
                          status |-> S("success")]))),
                     writes |-> <<write>>]

\* a call of write_claims_to_item(qid, json_data) with the arguments given:
\* a missing positional argument is a TypeError
call_write_claims_to_item(args, world) ==
    IF Len(args) # 2 THEN [outcome |-> Raise("TypeError"), writes |-> <<>>]
    ELSE write_claims_to_item(args[1], args[2], world)

\* routes/api.py: return write_claims_to_item(qid)
route_api_write_claims_to_item(qid, posted, world) ==
    call_write_claims_to_item(<<qid>>, world)

-----------------------------------------------------------------------------
(* Posted claims, and the calls of the write path                          *)

\* the most entries a posted list carries
MaxEntries == 2

SupportedString == S("String")
SupportedItem == S("WikibaseItem")
Unsupported == S("Quantity")

Qualifier(type, value) == Dict([pid |-> P2748, value |-> value, type |-> type])
Reference(type, value) == Dict([pid |-> P31, value |-> value, type |-> type])

PostedClaim(type, value, qualifiers, references) ==
    Dict(("pid" :> P31) @@ ("value" :> value) @@ Opt("type", type)
         @@ Opt("qualifiers", qualifiers) @@ Opt("references", references))

\* entries a client can post with every type supported and both lists there
SoundEntries ==
    { PostedClaim(SupportedItem, Q42, List(<<>>), List(<<>>)),
      PostedClaim(SupportedString, Puid,
                  List(<<Qualifier(SupportedString, Title)>>),
                  List(<<Reference(SupportedItem, Q42),
                         Reference(SupportedString, HomePage)>>)),
      PostedClaim(SupportedString, Title,
                  List(<<Qualifier(SupportedString, Title),
                         Qualifier(SupportedItem, Q42)>>),
                  List(<<Reference(SupportedString, HomePage)>>)) }

\* entries with an unsupported or missing type, or a missing list
UnsoundEntries ==
    { PostedClaim(Unsupported, Q42, List(<<>>), List(<<>>)),
      PostedClaim(Absent, Q42, List(<<>>), List(<<>>)),
      PostedClaim(SupportedString, Title, Absent, List(<<>>)),
      PostedClaim(SupportedString, Title, List(<<>>), Absent),
      PostedClaim(SupportedString, Title,
                  List(<<Qualifier(Unsupported, Title)>>), List(<<>>)) }

Entries == SoundEntries \cup UnsoundEntries

PostedLists == { List(l) : l \in UNION { [1..n -> Entries] : n \in 0..MaxEntries } }

WriteWorlds ==
    [fails : {"none", "WDItemEngine", "WDLogin", "write"},
     label : {S("Douglas Adams")}]

DatatypeNames == {SupportedItem, SupportedString, Unsupported, S(""), None}

DatatypeArguments ==
    { [prop_nr |-> P31, value |-> Q42],
      [prop_nr |-> P2748, value |-> Puid, is_qualifier |-> TRUE],
      [prop_nr |-> P31, value |-> Q42, is_reference |-> TRUE] }

WriteCalls ==
    [op : {"write_claims_to_item", "route_api_write_claims_to_item"},
     qid : {Q42, Q7}, json_data : PostedLists, world : WriteWorlds]
    \cup [op : {"wd_datatype"}, data_type_string : DatatypeNames,
          kwargs : DatatypeArguments]

InitWrite ==
    /\ Fresh
    /\ call \in WriteCalls
    /\ cached_property_labels = Dict(<<>>)

\* controllers/api.py: write_claims_to_item runs
WriteClaimsToItem ==
    /\ pc = "called" /\ call.op = "write_claims_to_item"
    /\ LET o == write_claims_to_item(call.qid, call.json_data, call.world)
       IN /\ ret' = o.outcome
          /\ writes' = o.writes
    /\ pc' = "done"
    /\ UNCHANGED <<call, logged, puid_queries, cached_property_labels>>
    /\ UNCHANGED <<lookups, pickle_vars>>

\* routes/api.py: a POST to /api/<qid>/claims/write carrying json_data
RouteApiWriteClaimsToItem ==
    /\ pc = "called" /\ call.op = "route_api_write_claims_to_item"
    /\ LET o == route_api_write_claims_to_item(call.qid, call.json_data,
                                               call.world)
       IN /\ ret' = o.outcome
          /\ writes' = o.writes
    /\ pc' = "done"
    /\ UNCHANGED <<call, logged, puid_queries, cached_property_labels>>
    /\ UNCHANGED <<lookups, pickle_vars>>

\* controllers/api.py: wd_datatype runs
WdDatatype ==
    /\ pc = "called" /\ call.op = "wd_datatype"
    /\ ret' = wd_datatype(call.data_type_string, call.kwargs)
    /\ pc' = "done"
    /\ UNCHANGED <<call, logged, puid_queries, writes, cached_property_labels>>
    /\ UNCHANGED <<lookups, pickle_vars>>

NextWrite == WriteClaimsToItem \/ RouteApiWriteClaimsToItem \/ WdDatatype

SpecWrite == InitWrite /\ [][NextWrite]_vars

-----------------------------------------------------------------------------
(* Properties of the write path                                            *)

WriteDone == pc = "done" /\ call.op = "write_claims_to_item"
RouteDone == pc = "done" /\ call.op = "route_api_write_claims_to_item"
DatatypeDone == pc = "done" /\ call.op = "wd_datatype"

Supported(type) == type \in {SupportedItem, SupportedString}

Posted == call.json_data.l

\* every statement built for its entry: one qualifier object per posted
\* qualifier, one reference group with one object per posted reference
StatementsMatch(data) ==
    /\ Len(data) = Len(Posted)
    /\ \A i \in 1..Len(Posted) :
          LET entry == Posted[i]
              statement == data[i].kwargs
          IN /\ statement.prop_nr = entry.d.pid
             /\ statement.value = entry.d.value
             /\ Len(statement.qualifiers) = Len(entry.d.qualifiers.l)
             /\ \A q \in 1..Len(statement.qualifiers) :
                   /\ statement.qualifiers[q].kwargs.value
                         = entry.d.qualifiers.l[q].d.value
                   /\ statement.qualifiers[q].kwargs.is_qualifier
             /\ Len(statement.references) = 1
             /\ Len(statement.references[1]) = Len(entry.d.references.l)
             /\ \A r \in 1..Len(entry.d.references.l) :
                   /\ statement.references[1][r].kwargs.value
                         = entry.d.references.l[r].d.value
                   /\ statement.references[1][r].kwargs.is_reference

\* one authenticated write of the statements to the item, reported with
\* their number
WrittenOnce ==
    /\ ~Raised(ret)
    /\ Len(writes) = 1
    /\ writes[1].qid = call.qid
    /\ writes[1].login = build_login
    /\ StatementsMatch(writes[1].data)
    /\ ret.val.json.d.status = S("success")
    /\ ret.val.json.d.message =
          SuccessMessage(Len(Posted), call.world.label, call.qid)

SoundPayload ==
    \A i \in 1..Len(Posted) :
        LET entry == Posted[i]
        IN /\ HasKey(entry, "type") /\ Supported(entry.d.type)
           /\ HasKey(entry, "qualifiers") /\ HasKey(entry, "references")
           /\ \A q \in 1..Len(entry.d.qualifiers.l) :
                 Supported(Get(entry.d.qualifiers.l[q], "type", None))
           /\ \A r \in 1..Len(entry.d.references.l) :
                 Supported(Get(entry.d.references.l[r], "type", None))

C9_RouteWritesPostedClaims ==
    (RouteDone /\ SoundPayload /\ call.world.fails = "none") => WrittenOnce

\* what the route does instead: every POST ends in a TypeError, unwritten
RouteAlwaysRaises ==
    RouteDone => ret = Raise("TypeError") /\ writes = <<>>

\* C10: wd_datatype fails its assertion for a data type string that is not
\* a supported name, and returns an instance of the mapped class built from
\* the given arguments for a supported one.
C10_UnsupportedTypeFailsAssertion ==
    DatatypeDone =>
        IF Supported(call.data_type_string)
        THEN ret = Return(Instance(STRING_TO_WD_DATATYPE[call.data_type_string],
                                   call.kwargs))
        ELSE ret = Raise("AssertionError")

\* what wd_datatype does for an unsupported name: the subscript's KeyError
UnsupportedTypeRaisesKeyError ==
    DatatypeDone =>
        IF Supported(call.data_type_string)
        THEN ret = Return(Instance(STRING_TO_WD_DATATYPE[call.data_type_string],
                                   call.kwargs))
        ELSE ret = Raise("KeyError")

-----------------------------------------------------------------------------
(* get_lang on its own: utils/__init__.py with the configured languages,   *)
(* utils.py with the constants of const.py                                 *)

\* utils.py lines 160-175: "_dict is {}" is never true, and None has no get
legacy_get_lang(dict, default) ==
    IF ~IsDict(dict) THEN Raise("AttributeError")
    ELSE LET value == Get(dict, ConstLang.lang, None)
         IN IF Truthy(value) THEN Return(value)
            ELSE Return(Get(dict, ConstLang.fb, default))

\* what a dictionary can hold for a language: nothing, a text, an entry, the
\* empty text, the empty list, None
LangValues ==
    { Absent, S("Douglas Adams"), Mono("fr", "Douglas Noel Adams"),
      Str(<<>>), List(<<>>), None }

LangDicts ==
    { Dict(Opt("en", en) @@ Opt("fr", fr) @@ Opt("de", de)) :
        en \in LangValues, fr \in LangValues,
        de \in {Absent, S("Douglas N. Adams")} }

LangDefaults == { None, S("Item Q42"), List(<<>>) }

LangCalls ==
    [op : {"get_lang"}, dict : LangDicts \cup {None}, default : LangDefaults,
     config : Configs]
    \cup [op : {"legacy_get_lang"}, dict : LangDicts \cup {None},
          default : LangDefaults, config : {ConstLang}]

InitLang ==
    /\ Fresh
    /\ call \in LangCalls
    /\ cached_property_labels = Dict(<<>>)

\* utils/__init__.py: get_lang runs
GetLang ==
    /\ pc = "called" /\ call.op = "get_lang"
    /\ ret' = Return(get_lang(call.dict, call.default, call.config))
    /\ pc' = "done"
    /\ UNCHANGED <<call, logged, puid_queries, writes, cached_property_labels>>
    /\ UNCHANGED <<lookups, pickle_vars>>

\* utils.py: get_lang runs
LegacyGetLang ==
    /\ pc = "called" /\ call.op = "legacy_get_lang"
    /\ ret' = legacy_get_lang(call.dict, call.default)
    /\ pc' = "done"
    /\ UNCHANGED <<call, logged, puid_queries, writes, cached_property_labels>>
    /\ UNCHANGED <<lookups, pickle_vars>>

NextLang == GetLang \/ LegacyGetLang

SpecLang == InitLang /\ [][NextLang]_vars

LangDone == pc = "done" /\ call.op \in {"get_lang", "legacy_get_lang"}

\* present and not empty
NonEmptyAt(dict, lang) ==
    /\ lang \in DOMAIN dict.d
    /\ dict.d[lang] \notin {None, Str(<<>>), List(<<>>), Dict(<<>>)}

\* C11: get_lang returns the dictionary's value for the configured language
\* when it is present and non-empty, otherwise the value for the fallback
\* language, otherwise the given default; for an empty dictionary it returns
\* the default.
C11_LanguageThenFallbackThenDefault ==
    (LangDone /\ IsDict(call.dict)) =>
        ret = Return(
            IF DOMAIN call.dict.d = {} THEN call.default
            ELSE IF NonEmptyAt(call.dict, call.config.lang)
            THEN call.dict.d[call.config.lang]
            ELSE IF call.config.fb \in DOMAIN call.dict.d
            THEN call.dict.d[call.config.fb]
            ELSE call.default)

\* the configured language's value is there but empty, and the fallback
\* language's value is returned
C11_Witness ==
    /\ LangDone /\ IsDict(call.dict)
    /\ call.config.lang # call.config.fb
    /\ HasKey(call.dict, call.config.lang)
    /\ ~NonEmptyAt(call.dict, call.config.lang)
    /\ NonEmptyAt(call.dict, call.config.fb)
    /\ ret = Return(call.dict.d[call.config.fb])

-----------------------------------------------------------------------------
(* convert_list_to_value_string (utils/__init__.py and utils.py alike),    *)
(* text taken one character at a time                                      *)

RECURSIVE Join(_, _)
\* sep.join(texts)
Join(sep, texts) ==
    IF texts = <<>> THEN <<>>
    ELSE IF Len(texts) = 1 THEN texts[1]
    ELSE texts[1] \o sep \o Join(sep, Tail(texts))

\* '(wd:{0})'.format(')(wd:'.join(map(str, lst)))
convert_list_to_value_string(lst) ==
    Str(<<"(", "w", "d", ":">>
        \o Join(<<")", "(", "w", "d", ":">>,
                [i \in 1..Len(lst.l) |-> Fmt(lst.l[i])])
        \o <<")">>)

\* the longest list of identifiers converted
MaxIds == 3

P5 == Str(<<"P", "5">>)
P123 == Str(<<"P", "1", "2", "3">>)

\* identifiers as texts, and one as a number (map(str, lst) renders it)
Ids == {P31, P5, P123, PyInt(7)}

IdLists == { List(l) : l \in UNION { [1..n -> Ids] : n \in 0..MaxIds } }

ValueStringCalls == [op : {"convert_list_to_value_string"}, lst : IdLists]

InitValueString ==
    /\ Fresh
    /\ call \in ValueStringCalls
    /\ cached_property_labels = Dict(<<>>)

\* convert_list_to_value_string runs
ConvertListToValueString ==
    /\ pc = "called" /\ call.op = "convert_list_to_value_string"
    /\ ret' = Return(convert_list_to_value_string(call.lst))
    /\ pc' = "done"
    /\ UNCHANGED <<call, logged, puid_queries, writes, cached_property_labels>>
    /\ UNCHANGED <<lookups, pickle_vars>>

NextValueString == ConvertListToValueString

SpecValueString == InitValueString /\ [][NextValueString]_vars

ValueStringDone == pc = "done" /\ call.op = "convert_list_to_value_string"

RECURSIVE Groups(_)
\* one '(wd:<id>)' group per element, in order
Groups(ids) ==
    IF ids = <<>> THEN <<>>
    ELSE <<"(", "w", "d", ":">> \o Fmt(Head(ids)) \o <<")">> \o Groups(Tail(ids))

\* the groups of a text: its opening parentheses
GroupCount(cs) == Cardinality({i \in 1..Len(cs) : cs[i] = "("})

\* C12: for every list of identifiers, convert_list_to_value_string returns
\* the concatenation, in list order, of one '(wd:<id>)' group per element, so
\* that the number of groups equals the length of the list, the empty list
\* included.
C12_OneGroupPerElement ==
    ValueStringDone =>
        /\ ret = Return(Str(Groups(call.lst.l)))
        /\ GroupCount(ret.val.s) = Len(call.lst.l)

\* what the code does: the claimed text for a list with elements, and the
\* one empty group '(wd:)' for the empty list
ValueStringOfEmptyListIsOneGroup ==
    ValueStringDone =>
        IF call.lst.l = <<>>
        THEN ret = Return(Str(<<"(", "w", "d", ":", ")">>))
        ELSE /\ ret = Return(Str(Groups(call.lst.l)))
             /\ GroupCount(ret.val.s) = Len(call.lst.l)

-----------------------------------------------------------------------------
(* routes/_filters.py: the entity_url filter, with get_qid_from_string and *)
(* get_pid_from_string of utils/__init__.py                                *)

RECURSIVE DigitRun(_)
\* \d+ matching greedily at the head of cs: the digits it takes
DigitRun(cs) ==
    IF cs # <<>> /\ Head(cs) \in Digits
    THEN <<Head(cs)>> \o DigitRun(Tail(cs)) ELSE <<>>

RECURSIVE re_search_entity(_, _)
\* re.search(r'(X|x)\d+', cs): the leftmost match, or None
re_search_entity(letters, cs) ==
    IF cs = <<>> THEN None
    ELSE IF Head(cs) \in letters /\ DigitRun(Tail(cs)) # <<>>
    THEN Str(<<Head(cs)>> \o DigitRun(Tail(cs)))
    ELSE re_search_entity(letters, Tail(cs))

\* regex_search.group() if regex_search else False
get_qid_from_string(input_string) ==
    LET regex_search == re_search_entity({"Q", "q"}, input_string.s)
    IN IF IsNone(regex_search) THEN PyBool(FALSE) ELSE regex_search

get_pid_from_string(input_string) ==
    LET regex_search == re_search_entity({"P", "p"}, input_string.s)
    IN IF IsNone(regex_search) THEN PyBool(FALSE) ELSE regex_search

\* const.py: 'http://www.wikidata.org/entity/$1'
ENTITY_URL_PATTERN == <<EntityPrefix, "$1">>

\* the filter looking for a property id before an item id
template_filter_entity_url_property_first(entity_id) ==
    LET found == get_pid_from_string(entity_id)
        valid_string == IF ~Truthy(found) THEN get_qid_from_string(entity_id)
                        ELSE found
    IN IF Truthy(valid_string)
       THEN Str(ReplaceWith(ENTITY_URL_PATTERN, "$1", valid_string.s))
       ELSE S("#")

template_filter_entity_url(entity_id) ==
    LET found == get_qid_from_string(entity_id)
        valid_string == IF ~Truthy(found) THEN get_pid_from_string(entity_id)
                        ELSE found
    IN IF Truthy(valid_string)
       THEN Str(ReplaceWith(ENTITY_URL_PATTERN, "$1", valid_string.s))
       ELSE S("#")

\* the longest text handed to the filter
MaxIdText == 4

IdTextChars == {"Q", "q", "P", "p", "1", "x"}

IdTexts == { Str(cs) : cs \in UNION { [1..n -> IdTextChars] : n \in 0..MaxIdText } }

EntityUrlCalls == [op : {"template_filter_entity_url"}, entity_id : IdTexts]

InitEntityUrl ==
    /\ Fresh
    /\ call \in EntityUrlCalls
    /\ cached_property_labels = Dict(<<>>)

\* routes/_filters.py: the entity_url filter runs
TemplateFilterEntityUrl ==
    /\ pc = "called" /\ call.op = "template_filter_entity_url"
    /\ ret' = Return(template_filter_entity_url(call.entity_id))
    /\ pc' = "done"
    /\ UNCHANGED <<call, logged, puid_queries, writes, cached_property_labels>>
    /\ UNCHANGED <<lookups, pickle_vars>>

NextEntityUrl == TemplateFilterEntityUrl

SpecEntityUrl == InitEntityUrl /\ [][NextEntityUrl]_vars

EntityUrlDone == pc = "done" /\ call.op = "template_filter_entity_url"

\* an identifier of the kind starts at i: its letter, then a digit
IdStartsAt(letters, i) ==
    LET cs == call.entity_id.s
    IN i < Len(cs) /\ cs[i] \in letters /\ cs[i + 1] \in Digits

IdStarts(letters) ==
    { i \in 1..Len(call.entity_id.s) : IdStartsAt(letters, i) }

\* the first identifier of the kind: from its first start to the last of the
\* digits that follow
FirstId(letters) ==
    LET cs == call.entity_id.s
        i == CHOOSE s \in IdStarts(letters) :
                 \A o \in IdStarts(letters) : s <= o
        j == CHOOSE e \in (i + 1)..Len(cs) :
                 /\ \A k \in (i + 1)..e : cs[k] \in Digits
                 /\ e = Len(cs) \/ cs[e + 1] \notin Digits
    IN SubSeq(cs, i, j)

EntityUrl(id) == Str(<<EntityPrefix>> \o id)

\* C13: the entity_url filter gives 'http://www.wikidata.org/entity/<id>'
\* for the first item id found in the input, when there is none for the
\* first property id found, and '#' when the input contains neither.
C13_ItemThenPropertyThenHash ==
    EntityUrlDone =>
        ret = Return(
            IF IdStarts({"Q", "q"}) # {} THEN EntityUrl(FirstId({"Q", "q"}))
            ELSE IF IdStarts({"P", "p"}) # {} THEN EntityUrl(FirstId({"P", "p"}))
            ELSE S("#"))

\* a property id ahead of an item id: the item id is used
C13_Witness ==
    /\ EntityUrlDone
    /\ IdStarts({"Q", "q"}) # {} /\ IdStarts({"P", "p"}) # {}
    /\ \E p \in IdStarts({"P", "p"}) : \A q \in IdStarts({"Q", "q"}) : p < q
    /\ ret = Return(EntityUrl(FirstId({"Q", "q"})))

-----------------------------------------------------------------------------
(* config.py: configure_app                                                *)

\* os.getenv(name, default)
getenv(env, name, default) == IF name \in DOMAIN env THEN env[name] ELSE default

\* BaseConfig and DevConfig, as far as the settings followed here go
CONFIGS ==
    (S("dev") :> [DEBUG |-> PyBool(TRUE), WIKIDATA_LANG |-> S("en"),
                  WIKIDATA_FB_LANG |-> S("en")])
    @@ (S("default") :> [DEBUG |-> PyBool(FALSE), WIKIDATA_LANG |-> S("en"),
                         WIKIDATA_FB_LANG |-> S("en")])

\* os.environ.get('PORT', 5000)
DefaultPort == 5000

\* int(text) for the texts a PORT setting is given as
int_of(v) ==
    IF v.k = "int" THEN Return(v)
    ELSE IF AllDigits(v.s) THEN Return(PyInt(DigitsToNat(v.s)))
    ELSE Raise("ValueError")

\* lines 72-76 always joining the two languages
wikibase_language_joined(lang, fb) == Str(Join(<<",">>, <<lang.s, fb.s>>))

\* lines 72-76: the list of unique languages
wikibase_language(lang, fb) ==
    IF lang # fb THEN Str(Join(<<",">>, <<lang.s, fb.s>>)) ELSE lang

\* env is the environment; file holds the settings of the file
\* WIKIDP_CONFIG_FILE names. The outcome is app.config
configure_app(env, file) ==
    LET config_name == getenv(env, "WIKIDP_CONFIG", S("dev"))
    IN IF config_name \notin DOMAIN CONFIGS THEN Raise("KeyError")
       ELSE LET port == int_of(getenv(env, "PORT", PyInt(DefaultPort)))
            IN IF Raised(port) THEN port
               ELSE LET from_object == CONFIGS[config_name]
                        from_envvar ==
                            IF Truthy(getenv(env, "WIKIDP_CONFIG_FILE", None))
                            THEN file @@ from_object ELSE from_object
                        lang == getenv(env, "WIKIDP_LANG", S("en"))
                        fb == getenv(env, "WIKIDP_FB_LANG", S("en"))
                    IN Return(Dict(
                         [PORT |-> port.val,
                          WIKIDATA_LANG |-> lang,
                          WIKIDATA_FB_LANG |-> fb,
                          WIKIBASE_LANGUAGE |-> wikibase_language(lang, fb)]
                         @@ from_envvar))

\* language settings: a language code, or set to the empty text
LanguageSettings == {S("en"), S("fr"), S("de"), Str(<<>>)}

Environments ==
    { Opt("WIKIDP_CONFIG", name) @@ Opt("PORT", port)
      @@ Opt("WIKIDP_CONFIG_FILE", path) @@ Opt("WIKIDP_LANG", lang)
      @@ Opt("WIKIDP_FB_LANG", fb) :
        name \in {Absent, S("dev"), S("default"), S("prod")},
        port \in {Absent, Str(<<"8", "0", "8", "0">>), S("http")},
        path \in {Absent, S("/etc/wikidp.cfg")},
        lang \in LanguageSettings \cup {Absent},
        fb \in LanguageSettings \cup {Absent} }

\* a settings file that names languages of its own
ConfigFile ==
    [WIKIDATA_LANG |-> S("es"), WIKIBASE_LANGUAGE |-> S("es"),
     WIKIDATA_USER_NAME |-> S("bot")]

ConfigureCalls == [op : {"configure_app"}, env : Environments, file : {ConfigFile}]

InitConfigure ==
    /\ Fresh
    /\ call \in ConfigureCalls
    /\ cached_property_labels = Dict(<<>>)

\* config.py: configure_app runs
ConfigureApp ==
    /\ pc = "called" /\ call.op = "configure_app"
    /\ ret' = configure_app(call.env, call.file)
    /\ pc' = "done"
    /\ UNCHANGED <<call, logged, puid_queries, writes, cached_property_labels>>
    /\ UNCHANGED <<lookups, pickle_vars>>

NextConfigure == ConfigureApp

SpecConfigure == InitConfigure /\ [][NextConfigure]_vars

\* configure_app has run to its end
Configured == pc = "done" /\ call.op = "configure_app" /\ ~Raised(ret)

\* the setting, 'en' when unset
Primary == IF "WIKIDP_LANG" \in DOMAIN call.env THEN call.env["WIKIDP_LANG"] ELSE S("en")
Fallback ==
    IF "WIKIDP_FB_LANG" \in DOMAIN call.env THEN call.env["WIKIDP_FB_LANG"]
    ELSE S("en")

\* the languages a text names, separated by commas
NamedLanguages(cs) == [i \in { j \in 1..Len(cs) : cs[j] # "," } |-> cs[i]]

\* C14: after configure_app, for every combination of the WIKIDP_LANG and
\* WIKIDP_FB_LANG settings (each 'en' when unset), WIKIBASE_LANGUAGE is the
\* primary language alone when primary and fallback are equal and
\* '<primary>,<fallback>' otherwise, and names no language twice.
C14_UniqueLanguages ==
    Configured =>
        LET language == ret.val.d.WIKIBASE_LANGUAGE
        IN /\ ret.val.d.WIKIDATA_LANG = Primary
           /\ ret.val.d.WIKIDATA_FB_LANG = Fallback
           /\ language = IF Primary = Fallback THEN Primary
                         ELSE Str(Primary.s \o <<",">> \o Fallback.s)
           /\ \A i, j \in DOMAIN NamedLanguages(language.s) :
                 NamedLanguages(language.s)[i] = NamedLanguages(language.s)[j]
                    => i = j

\* the fallback is set to the default of the unset primary, with a settings
\* file naming other languages
C14_Witness ==
    /\ Configured
    /\ "WIKIDP_LANG" \notin DOMAIN call.env
    /\ "WIKIDP_FB_LANG" \in DOMAIN call.env
    /\ "WIKIDP_CONFIG_FILE" \in DOMAIN call.env
    /\ Fallback = S("en")
    /\ ret.val.d.WIKIBASE_LANGUAGE = S("en")

-----------------------------------------------------------------------------
(* controllers/api.py: schemas                                             *)

PySet(members) == [k |-> "set", members |-> members]

\* a file is missing, holds no JSON document (the empty file is one such),
\* or holds a document
Missing == [k |-> "missing"]
NotJson(text) == [k |-> "text", s |-> text]
Json(v) == [k |-> "json", val |-> v]

\* load_schema: json.load of the file, None when there is no such file
load_schema(file) ==
    CASE file.k = "missing" -> Return(None)
      [] file.k = "text" -> Raise("JSONDecodeError")
      [] file.k = "json" -> Return(file.val)

\* "qualifier" in predicate
mentions_qualifier(predicate) == \E i \in DOMAIN predicate.s : predicate.s[i] = "qualifier"

\* parse_predicate: <<pid, is_qualifier>>
parse_predicate(expression) ==
    LET predicate == Get(expression, "predicate", Str(<<>>))
        pid == get_pid_from_string(predicate)
    IN IF Truthy(pid) THEN <<pid, mentions_qualifier(predicate)>>
       ELSE <<None, FALSE>>

\* the number of a property id, which orders a set's iteration
PidNumber(pid) == DigitsToNat(Tail(pid.s))

RECURSIVE Iterate(_, _)
\* the order in which a set of ids is gone through: the language leaves it
\* open; "asc" and "desc" are two orders it can take
Iterate(members, order) ==
    IF members = {} THEN <<>>
    ELSE LET first == CHOOSE x \in members : \A y \in members :
                        IF order = "asc" THEN PidNumber(x) <= PidNumber(y)
                        ELSE PidNumber(x) >= PidNumber(y)
         IN <<first>> \o Iterate(members \ {first}, order)

\* defaultdict(set): keys in insertion order, d the sets
EmptyPropMap == [k |-> "defaultdict", keys |-> <<>>, d |-> <<>>]

\* prop_map[pid] = prop_map[pid]
touch_prop(prop_map, pid) ==
    IF pid \in DOMAIN prop_map.d THEN prop_map
    ELSE [prop_map EXCEPT !.keys = Append(@, pid), !.d = (pid :> PySet({})) @@ @]

\* prop_map[prop] = qualifiers
set_prop(prop_map, prop, qualifiers) ==
    [prop_map EXCEPT !.keys = IF prop \in DOMAIN prop_map.d THEN @ ELSE Append(@, prop),
                     !.d = (prop :> qualifiers) @@ @]

RECURSIVE touch_inner(_, _)
\* lines 110-113 over the inner expressions
touch_inner(prop_map, inner) ==
    IF inner = <<>> THEN prop_map
    ELSE The({ touch_inner(IF Truthy(parsed[1]) THEN touch_prop(prop_map, parsed[1])
                           ELSE prop_map, Tail(inner)) :
               parsed \in {parse_predicate(Head(inner))} })

RECURSIVE parse_shape_expressions(_, _)
\* lines 104-113 over the expressions of one shape: the props, the
\* qualifiers and the map
parse_shape_expressions(acc, expressions) ==
    IF expressions = <<>> THEN acc
    ELSE The({ parse_shape_expressions(
                 [props |-> IF Truthy(parsed[1]) /\ ~parsed[2]
                            THEN acc.props \cup {parsed[1]} ELSE acc.props,
                  qualifiers |-> IF Truthy(parsed[1]) /\ parsed[2]
                                 THEN acc.qualifiers \cup {parsed[1]}
                                 ELSE acc.qualifiers,
                  prop_map |-> touch_inner(acc.prop_map,
                      Get(Head(expressions), "expressions", List(<<>>)).l)],
                 Tail(expressions)) :
               parsed \in {parse_predicate(Head(expressions))} })

RECURSIVE set_props(_, _, _)
\* lines 114-115: every prop is given the set of the shape's qualifiers
set_props(prop_map, props, qualifiers) ==
    IF props = <<>> THEN prop_map
    ELSE set_props(set_prop(prop_map, Head(props), qualifiers), Tail(props), qualifiers)

RECURSIVE parse_shapes(_, _, _)
\* lines 100-115 over the shapes
parse_shapes(prop_map, shapes, order) ==
    IF shapes = <<>> THEN prop_map
    ELSE The({ parse_shapes(
                 set_props(parsed.prop_map, Iterate(parsed.props, order),
                           PySet(parsed.qualifiers)),
                 Tail(shapes), order) :
               parsed \in {parse_shape_expressions(
                   [props |-> {}, qualifiers |-> {}, prop_map |-> prop_map],
                   Get(Get(Head(shapes), "expression", Dict(<<>>)),
                       "expressions", List(<<>>)).l)} })

parse_expressions(schema, order) ==
    parse_shapes(EmptyPropMap, Get(schema, "shapes", List(<<>>)).l, order)

\* get_schema_properties on the file the name stands for
get_schema_properties(file, order) ==
    LET data == load_schema(file)
    IN IF Raised(data) THEN data
       ELSE IF ~Truthy(data.val) THEN Return(None)
       ELSE Return(parse_expressions(data.val, order))

\* flatten_prop_map: every id of the map, keys and qualifiers
flatten_prop_map(prop_map) ==
    DOMAIN prop_map.d \cup UNION { prop_map.d[prop].members : prop \in DOMAIN prop_map.d }

\* get_property_details_by_pid_list: the endpoint's answer to the property
\* query for the ids, flattened
get_property_details_by_pid_list(pid_list, result) == process_query_string(result)

RECURSIVE index_by_id(_, _)
\* { prop.get("id"): prop for prop in ... }
index_by_id(all_prop_data, props) ==
    IF props = <<>> THEN all_prop_data
    ELSE index_by_id((Get(Head(props), "id", None) :> Head(props)) @@ all_prop_data,
                     Tail(props))

RECURSIVE prop_data(_, _, _, _)
\* all_prop_data[pid] as the loop leaves it: the details, with the list of
\* the qualifiers' entries when the loop has gone through pid
prop_data(all_prop_data, prop_map, pid, depth) ==
    IF pid \notin DOMAIN prop_map.d \/ depth = 0 THEN all_prop_data[pid]
    ELSE Dict(
        [qualifiers |->
            List([i \in 1..Cardinality(prop_map.d[pid].members) |->
                    prop_data(all_prop_data, prop_map,
                              Iterate(prop_map.d[pid].members, "asc")[i], depth - 1)])]
        @@ all_prop_data[pid].d)

\* lines 174-182
build_checklist(all_prop_data, prop_map) ==
    IF \E pid \in flatten_prop_map(prop_map) : pid \notin DOMAIN all_prop_data
    THEN Raise("KeyError")
    ELSE Return(List([i \in 1..Len(prop_map.keys) |->
                        prop_data(all_prop_data, prop_map, prop_map.keys[i],
                                  Len(prop_map.keys))]))

get_property_checklist_from_schema(file, order, result) ==
    LET prop_map == get_schema_properties(file, order)
    IN IF Raised(prop_map) THEN prop_map
       ELSE IF IsNone(prop_map.val) \/ prop_map.val.keys = <<>> THEN Return(List(<<>>))
       ELSE LET all_prop_ids == flatten_prop_map(prop_map.val)
                details == get_property_details_by_pid_list(
                               List(Iterate(all_prop_ids, order)), result)
            IN IF Raised(details) THEN details
               ELSE build_checklist(index_by_id(<<>>, details.val.l), prop_map.val)

\* bounds of the schemas gone through
MaxShapes == 2
MaxExpressions == 2

PropPrefix == "http://www.wikidata.org/prop/"
DirectPredicate(pid) == Str(<<PropPrefix, "direct", "/">> \o pid.s)
QualifierPredicate(pid) == Str(<<PropPrefix, "qualifier", "/">> \o pid.s)
LabelPredicate == S("http://www.w3.org/2000/01/rdf-schema#label")

Expression(predicate, inner) ==
    Dict([type |-> S("TripleConstraint")] @@ Opt("predicate", predicate)
         @@ Opt("expressions", inner))

SchemaExpressions ==
    { Expression(predicate, Absent) :
        predicate \in {DirectPredicate(P31), DirectPredicate(P279),
                       QualifierPredicate(P123), LabelPredicate} }
    \cup { Expression(Absent, List(<<Expression(predicate, Absent)>>)) :
             predicate \in {DirectPredicate(P279), QualifierPredicate(P123)} }

ExpressionLists == UNION { [1..n -> SchemaExpressions] : n \in 0..MaxExpressions }

Shapes ==
    { Dict([id |-> S("shape")]) }
    \cup { Dict([id |-> S("shape"), expression |-> Dict([expressions |-> List(es)])]) :
             es \in ExpressionLists }

SchemaDocuments ==
    { Dict(<<>>), List(<<>>), None, Dict([type |-> S("Schema")]) }
    \cup { Dict([type |-> S("Schema"), shapes |-> List(ss)]) :
             ss \in UNION { [1..n -> Shapes] : n \in 0..MaxShapes } }

SchemaFiles ==
    { Missing, NotJson(<<>>), NotJson(<<"{">>) } \cup { Json(v) : v \in SchemaDocuments }

\* the endpoint's answer to the property query: the details of some of the
\* properties
PropertyBinding(pid) ==
    Dict([id |-> Literal(pid), label |-> Literal(Str(<<"label of ">> \o pid.s))])

DetailResults ==
    { SparqlResult(SelectSeq(<<PropertyBinding(P31), PropertyBinding(P123),
                               PropertyBinding(P279)>>,
                             LAMBDA b : b.d.id.d.value \in known)) :
        known \in SUBSET {P31, P123, P279} }

SchemaCalls ==
    [op : {"get_schema_properties"}, schema_name : {S("file_format_id_pattern")},
     file : SchemaFiles, order : {"asc", "desc"}, result : {SparqlResult(<<>>)}]
    \cup [op : {"get_property_checklist_from_schema"},
          schema_name : {S("file_format_id_pattern")},
          file : SchemaFiles, order : {"asc", "desc"}, result : DetailResults]

InitSchema ==
    /\ Fresh
    /\ call \in SchemaCalls
    /\ cached_property_labels = Dict(<<>>)

\* controllers/api.py: get_schema_properties runs
GetSchemaProperties ==
    /\ pc = "called" /\ call.op = "get_schema_properties"
    /\ ret' = get_schema_properties(call.file, call.order)
    /\ pc' = "done"
    /\ UNCHANGED <<call, logged, puid_queries, writes, cached_property_labels>>
    /\ UNCHANGED <<lookups, pickle_vars>>

\* controllers/api.py: get_property_checklist_from_schema runs
GetPropertyChecklistFromSchema ==
    /\ pc = "called" /\ call.op = "get_property_checklist_from_schema"
    /\ ret' = get_property_checklist_from_schema(call.file, call.order, call.result)
    /\ pc' = "done"
    /\ UNCHANGED <<call, logged, puid_queries, writes, cached_property_labels>>
    /\ UNCHANGED <<lookups, pickle_vars>>

NextSchema == GetSchemaProperties \/ GetPropertyChecklistFromSchema

SpecSchema == InitSchema /\ [][NextSchema]_vars

SchemaDone == pc = "done" /\ call.op = "get_schema_properties"

\* the shapes of the document in the file
ShapesOf(file) ==
    IF file.k = "json" /\ Truthy(file.val) /\ IsDict(file.val)
    THEN Get(file.val, "shapes", List(<<>>)).l ELSE <<>>

\* the expressions a shape lists
ExpressionsOf(shape) ==
    Get(Get(shape, "expression", Dict(<<>>)), "expressions", List(<<>>)).l

\* the property ids a shape's expressions name, qualifiers or not
ShapePids(shape, qualifier) ==
    { parse_predicate(ExpressionsOf(shape)[i])[1] :
        i \in { j \in DOMAIN ExpressionsOf(shape) :
                  /\ Truthy(parse_predicate(ExpressionsOf(shape)[j])[1])
                  /\ parse_predicate(ExpressionsOf(shape)[j])[2] = qualifier } }

\* the file is there and holds a document that is not empty
HoldsSchema(file) == file.k = "json" /\ Truthy(file.val)

\* C15: get_schema_properties returns None when the schema file is missing
\* or empty, and otherwise a map in which every non-qualifier property id
\* found in a shape's expressions is a key whose value is the set of the
\* qualifier property ids declared in that same shape.
C15_PropertiesWithShapeQualifiers ==
    SchemaDone =>
        /\ call.file.k \in {"missing", "json"} => ~Raised(ret)
        /\ (call.file.k = "missing" \/ (call.file.k = "json" /\ ~Truthy(call.file.val)))
              => ret = Return(None)
        /\ HoldsSchema(call.file) =>
              \A i \in DOMAIN ShapesOf(call.file) :
                 \A pid \in ShapePids(ShapesOf(call.file)[i], FALSE) :
                    /\ pid \in DOMAIN ret.val.d
                    /\ ret.val.d[pid] = PySet(ShapePids(ShapesOf(call.file)[i], TRUE))

\* the last shape that names a property decides its qualifiers
SchemaPropertiesOfLastShape ==
    (SchemaDone /\ HoldsSchema(call.file)) =>
        \A i \in DOMAIN ShapesOf(call.file) :
           \A pid \in ShapePids(ShapesOf(call.file)[i], FALSE) :
              /\ pid \in DOMAIN ret.val.d
              /\ (\A j \in DOMAIN ShapesOf(call.file) :
                     (j > i => pid \notin ShapePids(ShapesOf(call.file)[j], FALSE)))
                   => ret.val.d[pid] = PySet(ShapePids(ShapesOf(call.file)[i], TRUE))

\* a file that is not a JSON document, the empty file among them, is not
\* answered with None
SchemaFileWithoutJsonRaises ==
    (SchemaDone /\ call.file.k = "text") => ret = Raise("JSONDecodeError")

ChecklistDone == pc = "done" /\ call.op = "get_property_checklist_from_schema"

\* the property map of the call's schema, None when there is none
SchemaPropMap == get_schema_properties(call.file, call.order)

\* the schema is loaded and its map has a key
DefinesProperties ==
    /\ ~Raised(SchemaPropMap)
    /\ ~IsNone(SchemaPropMap.val)
    /\ SchemaPropMap.val.keys # <<>>

\* one entry per key of the map, each the details of the key's property with
\* the details of its qualifiers
IsChecklistOf(checklist, prop_map) ==
    /\ Len(checklist.l) = Cardinality(DOMAIN prop_map.d)
    /\ \A pid \in DOMAIN prop_map.d :
          \E i \in DOMAIN checklist.l :
             /\ Get(checklist.l[i], "id", None) = pid
             /\ HasKey(checklist.l[i], "qualifiers")
             /\ IsList(checklist.l[i].d.qualifiers)
             /\ Len(checklist.l[i].d.qualifiers.l) = Cardinality(prop_map.d[pid].members)
             /\ \A q \in prop_map.d[pid].members :
                   \E j \in DOMAIN checklist.l[i].d.qualifiers.l :
                      Get(checklist.l[i].d.qualifiers.l[j], "id", None) = q

\* C16: get_property_checklist_from_schema returns a list for every schema
\* name: the empty list when the schema cannot be loaded or defines no
\* properties, and otherwise exactly one checklist entry per key of the
\* schema's property map, each entry being that property's details with a
\* 'qualifiers' list holding the details of each of its qualifier properties.
C16_ChecklistForEverySchema ==
    ChecklistDone =>
        /\ ~Raised(ret)
        /\ IsList(ret.val)
        /\ ~DefinesProperties => ret.val = List(<<>>)
        /\ DefinesProperties => IsChecklistOf(ret.val, SchemaPropMap.val)

\* the endpoint answers with the details of every property of the map
DetailsKnown ==
    \A pid \in flatten_prop_map(SchemaPropMap.val) :
       \E i \in DOMAIN call.result.d.results.d.bindings.l :
          call.result.d.results.d.bindings.l[i].d.id.d.value = pid

\* on a schema file that is missing or holds a document, and with the
\* details of every property answered, the checklist is as described
ChecklistOnLoadedSchemaWithDetails ==
    (ChecklistDone /\ call.file.k # "text") =>
        /\ ~DefinesProperties => ret = Return(List(<<>>))
        /\ (DefinesProperties /\ DetailsKnown) =>
              /\ ~Raised(ret)
              /\ IsChecklistOf(ret.val, SchemaPropMap.val)

\* a schema file that holds no JSON document ends the call with an error
ChecklistOfFileWithoutJsonRaises ==
    (ChecklistDone /\ call.file.k = "text") => ret = Raise("JSONDecodeError")

\* a property the endpoint has no details of ends the call with an error
ChecklistWithoutDetailsRaises ==
    (ChecklistDone /\ DefinesProperties /\ ~DetailsKnown) => ret = Raise("KeyError")

-----------------------------------------------------------------------------
(* format_url_from_property called on its own                              *)

\* bound of the values gone through
MaxValueLen == 3

ValueChars == {" ", "f", "m", "t"}
UrlValues == { Str(cs) : cs \in UNION { [1..n -> ValueChars] : n \in 0..MaxValueLen } }

\* the property query's answers: no row, a row without a formatter URL, a
\* row with no binding, rows whose formatter URL holds '$1' once, twice or
\* not at all
FormatterResult(url) ==
    SparqlResult(<<Dict([id |-> Literal(P2748), formatter_url |-> Literal(url)])>>)

FormatterResults ==
    { NoProperty, PlainProperty, UrlProperty, SparqlResult(<<Dict(<<>>)>>),
      FormatterResult(Str(<<"https://example.org/", "$1", "/", "$1">>)),
      FormatterResult(S("https://example.org/")) }

FormatUrlCalls ==
    [op : {"format_url_from_property", "legacy_format_url_from_property"},
     pid : {P2748}, value : UrlValues, result : FormatterResults]

InitFormatUrl ==
    /\ Fresh
    /\ call \in FormatUrlCalls
    /\ cached_property_labels = Dict(<<>>)

\* utils/__init__.py: format_url_from_property runs
FormatUrlFromProperty ==
    /\ pc = "called" /\ call.op = "format_url_from_property"
    /\ ret' = format_url_from_property(call.value, call.result)
    /\ pc' = "done"
    /\ UNCHANGED <<call, logged, puid_queries, writes, cached_property_labels>>
    /\ UNCHANGED <<lookups, pickle_vars>>

\* utils.py: format_url_from_property runs
LegacyFormatUrlFromProperty ==
    /\ pc = "called" /\ call.op = "legacy_format_url_from_property"
    /\ ret' = legacy_format_url_from_property(call.value, call.result)
    /\ pc' = "done"
    /\ UNCHANGED <<call, logged, puid_queries, writes, cached_property_labels>>
    /\ UNCHANGED <<lookups, pickle_vars>>

NextFormatUrl == FormatUrlFromProperty \/ LegacyFormatUrlFromProperty

SpecFormatUrl == InitFormatUrl /\ [][NextFormatUrl]_vars

FormatUrlDone ==
    pc = "done" /\ call.op \in {"format_url_from_property", "legacy_format_url_from_property"}

\* the rows of the property query's answer
DetailRows == call.result.d.results.d.bindings.l

\* details are found, and they hold a formatter URL
HasFormatterUrl == DetailRows # <<>> /\ HasKey(DetailRows[1], "formatter_url")

\* the value without the blanks around it
Stripped(cs) ==
    LET kept == { i \in DOMAIN cs : cs[i] # " " }
    IN IF kept = {} THEN <<>>
       ELSE SubSeq(cs, CHOOSE i \in kept : \A j \in kept : i <= j,
                       CHOOSE i \in kept : \A j \in kept : i >= j)

\* url with every '$1' replaced by the text
Substituted(url, text) ==
    LET at(i) == IF url[i] = "$1" THEN text ELSE <<url[i]>>
        upto[i \in 0..Len(url)] == IF i = 0 THEN <<>> ELSE upto[i - 1] \o at(i)
    IN upto[Len(url)]

FormatUrlContract ==
    /\ HasFormatterUrl =>
          ret = Return(Str(Substituted(DetailRows[1].d.formatter_url.d.value.s,
                                       Stripped(call.value.s))))
    /\ ~HasFormatterUrl => ret = Return(None)

\* C17: format_url_from_property(pid, value) returns the property's
\* formatter URL with '$1' replaced by the value stripped of surrounding
\* whitespace, and returns None, without raising, when the property has no
\* formatter URL or when no details are found for the property.
C17_FormatterUrlOrNone == FormatUrlDone => FormatUrlContract

\* utils/__init__.py's version keeps to it
FormatUrlOfLaterVersion ==
    (pc = "done" /\ call.op = "format_url_from_property") => FormatUrlContract

\* utils.py's version keeps to it when details are found, and raises
\* TypeError when none are
LegacyFormatUrlRaisesWithoutDetails ==
    (pc = "done" /\ call.op = "legacy_format_url_from_property") =>
        IF DetailRows = <<>> THEN ret = Raise("TypeError") ELSE FormatUrlContract

-----------------------------------------------------------------------------
(* models.py: FileFormat.list_formats                                      *)

RECURSIVE Split(_, _)
\* str.split(sep): the pieces between the separators, one more than there
\* are separators
Split(cs, sep) ==
    IF \A i \in DOMAIN cs : cs[i] # sep THEN <<Str(cs)>>
    ELSE LET at == CHOOSE i \in DOMAIN cs :
                     cs[i] = sep /\ \A j \in 1..(i - 1) : cs[j] # sep
         IN <<Str(SubSeq(cs, 1, at - 1))>> \o Split(SubSeq(cs, at + 1, Len(cs)), sep)

\* FileFormat(qid, name, media_types)
FileFormat(qid, name, media_types) ==
    [k |-> "FileFormat", qid |-> qid, name |-> name,
     media_types |-> IF IsNone(media_types) THEN List(<<>>) ELSE media_types]

\* lines 59-62 for one binding
file_format_of(x) ==
    FileFormat(Str(ReplaceWith(x.d.idFileFormat.d.value.s, EntityPrefix, <<>>)),
               x.d.idFileFormatLabel.d.value,
               List(Split(x.d.mediaTypes.d.value.s, "|")))

\* list_formats on the endpoint's answer to the query
list_formats(results_json) ==
    IF ~HasKey(results_json, "results") \/ ~HasKey(results_json.d.results, "bindings")
    THEN Raise("KeyError")
    ELSE Return(List([i \in 1..Len(results_json.d.results.d.bindings.l) |->
                        file_format_of(results_json.d.results.d.bindings.l[i])]))

\* bounds of the answers gone through
MaxFormats == 2
MaxMediaTypes == 2

MediaTypeNames == {<<"application/pdf">>, <<"image/png">>, <<"text/xml">>}

\* the distinct media types of a format, in the order the endpoint
\* concatenates them
MediaTypeLists ==
    { ms \in UNION { [1..n -> MediaTypeNames] : n \in 0..MaxMediaTypes } :
        \A i, j \in DOMAIN ms : ms[i] = ms[j] => i = j }

\* GROUP_CONCAT(DISTINCT ?mediaType; SEPARATOR='|'), the empty text for a
\* format without media type
FormatBinding(qid, ms) ==
    Dict([idFileFormat |-> Uri(qid),
          idFileFormatLabel |-> Literal(Str(<<"format ">> \o qid.s)),
          mediaTypes |-> Literal(Str(Join(<<"|">>, ms)))])

FormatBindings == { FormatBinding(qid, ms) : qid \in {Q1, Q7}, ms \in MediaTypeLists }

FormatResults ==
    { SparqlResult(bs) : bs \in UNION { [1..n -> FormatBindings] : n \in 0..MaxFormats } }

FormatCalls == [op : {"list_formats"}, lang : {S("en")}, result : FormatResults]

InitFormats ==
    /\ Fresh
    /\ call \in FormatCalls
    /\ cached_property_labels = Dict(<<>>)

\* models.py: FileFormat.list_formats runs
ListFormats ==
    /\ pc = "called" /\ call.op = "list_formats"
    /\ ret' = list_formats(call.result)
    /\ pc' = "done"
    /\ UNCHANGED <<call, logged, puid_queries, writes, cached_property_labels>>
    /\ UNCHANGED <<lookups, pickle_vars>>

NextFormats == ListFormats

SpecFormats == InitFormats /\ [][NextFormats]_vars

FormatsDone == pc = "done" /\ call.op = "list_formats"

\* the media types the answer's row i concatenates: the pieces that are
\* media types
MediaTypesOfRow(i) ==
    LET cs == call.result.d.results.d.bindings.l[i].d.mediaTypes.d.value.s
    IN SelectSeq([j \in DOMAIN cs |-> Str(<<cs[j]>>)], LAMBDA m : m.s # <<"|">>)

\* C18: for every format returned by FileFormat.list_formats, media_types
\* is the list of the distinct media types associated with the format: one
\* element per media type, and therefore an empty list for a format that
\* has no media type.
C18_OneElementPerMediaType ==
    FormatsDone =>
        /\ ~Raised(ret)
        /\ Len(ret.val.l) = Len(call.result.d.results.d.bindings.l)
        /\ \A i \in DOMAIN ret.val.l :
              ret.val.l[i].media_types = List(MediaTypesOfRow(i))

\* a format with media types gets them, one element each; a format without
\* gets a list holding the empty text
FormatWithoutMediaTypeGetsEmptyText ==
    FormatsDone =>
        /\ ~Raised(ret)
        /\ \A i \in DOMAIN ret.val.l :
              ret.val.l[i].media_types =
                 IF MediaTypesOfRow(i) = <<>> THEN List(<<Str(<<>>)>>)
                 ELSE List(MediaTypesOfRow(i))

-----------------------------------------------------------------------------
(* utils.py: calls of pid_label sharing one mapping                        *)

\* the property query's answers: no row, a row with a label, a row without
LabelResults == {NoProperty, PlainProperty, UrlProperty, FormatterResult(FormatterUrl)}

PidLabelCalls == [op : {"pid_label"}, pid : {P31, P2748, P5}, result : LabelResults]

InitPidLabel ==
    /\ Fresh
    /\ call \in PidLabelCalls
    /\ cached_property_labels \in Caches

\* utils.py: pid_label runs on the shared mapping
PidLabel ==
    /\ pc = "called" /\ call.op = "pid_label"
    /\ \E o \in {pid_label(call.pid, cached_property_labels, call.result)} :
          /\ ret' = o.outcome
          /\ cached_property_labels' = o.cache
          /\ lookups' = IF o.looked_up THEN Append(lookups, call.pid) ELSE lookups
    /\ pc' = "done"
    /\ UNCHANGED <<call, logged, puid_queries, writes, pickle_vars>>

\* the next call of pid_label with the same mapping
CallPidLabelAgain ==
    /\ pc = "done" /\ call.op = "pid_label"
    /\ call' \in PidLabelCalls
    /\ pc' = "called"
    /\ ret' = Return(None)
    /\ UNCHANGED <<logged, puid_queries, writes, cached_property_labels, lookups,
                   pickle_vars>>

NextPidLabel == PidLabel \/ CallPidLabelAgain

SpecPidLabel == InitPidLabel /\ [][NextPidLabel]_vars

\* the step in which a call of pid_label runs
PidLabelRuns == pc = "called" /\ pc' = "done" /\ call.op = "pid_label"

-----------------------------------------------------------------------------
(* DisplayFunctions.py: the pickle-backed label caches, two calls of       *)
(* item_detail_parse interleaved                                           *)

\* the label the outside world has for an entity
LabelOf(id) == Str(<<"label of ">> \o id.s)

\* load_caches: the globals as unpickled from the files
load_caches(files) ==
    [PID_CACHE |-> files.property_labels, QID_CACHE |-> files.item_labels]

\* pid_label of DisplayFunctions.py: on a miss the label is read off the
\* property's page and kept in PID_CACHE; a page that cannot be read leaves
\* the cache alone
DisplayFunctions_pid_label(pid, globals, page_read) ==
    IF HasKey(globals.PID_CACHE, pid)
    THEN [label |-> globals.PID_CACHE.d[pid], globals |-> globals, added |-> {}]
    ELSE IF page_read
    THEN [label |-> LabelOf(pid),
          globals |-> [globals EXCEPT !.PID_CACHE = Dict((pid :> LabelOf(pid)) @@ @.d)],
          added |-> {pid}]
    ELSE [label |-> S("Unknown Property Label"), globals |-> globals, added |-> {}]

\* qid_label: on a miss the label comes from pywikibot, and item-labels is
\* written at once, or else from the item's page, or else from nowhere
qid_label(qid, globals, files, site) ==
    IF HasKey(globals.QID_CACHE, qid)
    THEN [label |-> globals.QID_CACHE.d[qid], globals |-> globals, files |-> files,
          added |-> {}]
    ELSE IF site = "none"
    THEN [label |-> S("Unknown Item Label"), globals |-> globals, files |-> files,
          added |-> {}]
    ELSE LET kept == Dict((qid :> LabelOf(qid)) @@ globals.QID_CACHE.d)
         IN [label |-> LabelOf(qid),
             globals |-> [globals EXCEPT !.QID_CACHE = kept],
             files |-> IF site = "pywikibot"
                       THEN [files EXCEPT !.item_labels = kept] ELSE files,
             added |-> {qid}]

\* the two calls
Calls == {1, 2}

\* the interpreter whose globals a call works on: one for both calls when
\* they are threads of one server, one each when they are processes
Interpreter(c) == IF call.sharing = "threads" THEN 1 ELSE c

\* the steps of item_detail_parse that touch the caches, in order
Steps == <<"load_caches", "own_label", "pid_label", "qid_label",
           "dump_property_labels", "dump_item_labels", "returned">>

At(c, step) == Steps[pc[c]] = step

\* the files as the calls find them
CacheFileSets ==
    { [property_labels |-> Dict(<<>>), item_labels |-> Dict(<<>>)],
      [property_labels |-> Dict(P31 :> LabelOf(P31)),
       item_labels |-> Dict(Q42 :> LabelOf(Q42))] }

\* an item to parse: its id, the property of its claim, the item its claim
\* points to, and where labels can be read from during the call
ItemsToParse(qid) ==
    [qid : {qid}, claim : {P31, P279}, value : {Q42, Q7},
     site : {"pywikibot", "page", "none"}]

InitPickle ==
    /\ call \in [op : {"item_detail_parse"}, sharing : {"threads", "processes"},
                 items : { <<a, b>> : a \in ItemsToParse(Q1), b \in ItemsToParse(Q7) }]
    /\ pc = [c \in Calls |-> 1]
    /\ ret = Return(None)
    /\ logged = <<>> /\ puid_queries = <<>> /\ writes = <<>> /\ lookups = <<>>
    /\ cached_property_labels = Dict(<<>>)
    /\ caches = [i \in {Interpreter(c) : c \in Calls} |-> None]
    /\ cache_files \in CacheFileSets
    /\ added = [c \in Calls |-> {}]

\* what the steps below leave alone
PickleFrame(c) ==
    /\ pc' = [pc EXCEPT ![c] = @ + 1]
    /\ UNCHANGED <<call, ret, logged, puid_queries, writes, cached_property_labels,
                   lookups>>

\* line 34: load_caches()
LoadCaches(c) ==
    /\ At(c, "load_caches")
    /\ caches' = [caches EXCEPT ![Interpreter(c)] = load_caches(cache_files)]
    /\ UNCHANGED <<cache_files, added>>
    /\ PickleFrame(c)

\* lines 36-37: QID_CACHE[qid] = label
OwnLabel(c) ==
    /\ At(c, "own_label")
    /\ caches' = [caches EXCEPT ![Interpreter(c)].QID_CACHE =
                     Dict((call.items[c].qid :> LabelOf(call.items[c].qid)) @@ @.d)]
    /\ added' = [added EXCEPT ![c] = @ \cup {call.items[c].qid}]
    /\ UNCHANGED cache_files
    /\ PickleFrame(c)

\* line 53: pid_label(claim)
ClaimLabel(c) ==
    /\ At(c, "pid_label")
    /\ \E o \in {DisplayFunctions_pid_label(call.items[c].claim, caches[Interpreter(c)],
                                            call.items[c].site # "none")} :
          /\ caches' = [caches EXCEPT ![Interpreter(c)] = o.globals]
          /\ added' = [added EXCEPT ![c] = @ \cup o.added]
    /\ UNCHANGED cache_files
    /\ PickleFrame(c)

\* line 94: qid_label(val)
ValueLabel(c) ==
    /\ At(c, "qid_label")
    /\ \E o \in {qid_label(call.items[c].value, caches[Interpreter(c)], cache_files,
                           call.items[c].site)} :
          /\ caches' = [caches EXCEPT ![Interpreter(c)] = o.globals]
          /\ cache_files' = o.files
          /\ added' = [added EXCEPT ![c] = @ \cup o.added]
    /\ PickleFrame(c)

\* line 145: pickle.dump(PID_CACHE, ...)
DumpPropertyLabels(c) ==
    /\ At(c, "dump_property_labels")
    /\ cache_files' = [cache_files EXCEPT
                          !.property_labels = caches[Interpreter(c)].PID_CACHE]
    /\ UNCHANGED <<caches, added>>
    /\ PickleFrame(c)

\* line 146: pickle.dump(QID_CACHE, ...)
DumpItemLabels(c) ==
    /\ At(c, "dump_item_labels")
    /\ cache_files' = [cache_files EXCEPT
                          !.item_labels = caches[Interpreter(c)].QID_CACHE]
    /\ UNCHANGED <<caches, added>>
    /\ PickleFrame(c)

NextPickle ==
    \E c \in Calls :
       \/ LoadCaches(c)
       \/ OwnLabel(c)
       \/ ClaimLabel(c)
       \/ ValueLabel(c)
       \/ DumpPropertyLabels(c)
       \/ DumpItemLabels(c)

SpecPickle == InitPickle /\ [][NextPickle]_vars

\* the labels in the files
Persisted == DOMAIN cache_files.property_labels.d \cup DOMAIN cache_files.item_labels.d

\* C20: when two item_detail_parse calls run interleaved, each reloading
\* the caches at its start and writing them back at its end, every label
\* either call added to the item or property cache is in the persisted
\* cache files after both calls have finished.
C20_NoCachedLabelLost ==
    (\A c \in Calls : At(c, "returned")) => \A c \in Calls : added[c] \subseteq Persisted

\* a call that runs from its start to its end while the other call has not
\* started, or has ended, leaves every label it added in the files
CallOnItsOwnPersists ==
    \A c \in Calls :
       (At(c, "returned") /\ \A d \in Calls \ {c} : At(d, "load_caches"))
          => added[c] \subseteq Persisted

=============================================================================
